---- MODULE Spec2Model ----
(***************************************************************************)
(* Model of the volleyball heat-map annotator: the image validator         *)
(* (imageUtils.ts), the annotation surface (AnnotationCanvas.tsx), the     *)
(* compressor's sizing rule, the Gemini client (geminiApi.ts) and the      *)
(* analysis orchestrator (the useImageAnalysis hook).                      *)
(*                                                                         *)
(* Each part has its own specification over the shared variables:          *)
(*   SpecValidate  validateImageFile applied to a drawn file               *)
(*   SpecCanvas    clicks, undo, clear, tool changes on the marker set     *)
(*   SpecCompress  compressImage's canvas sizing applied to a drawn image  *)
(*   SpecClient    one call of analyzeImageWithGemini, await by await      *)
(*   Spec          the orchestrator: overlapping runs of analyzeImage, the *)
(*                 reset timer, removeResult and clearResults              *)
(***************************************************************************)
EXTENDS Integers, Sequences, FiniteSets, TLC

VARIABLES
  \* ---- validator (pure function under test) ----
  vFile,        \* the File handed to validateImageFile, or NoValue
  vResult,      \* what validateImageFile returned, or NoValue
  \* ---- annotation surface ----
  points,       \* useState<Point[]>: the marker list, in array order
  currentTool,  \* useState<'success'|'failure'>
  imageLoaded,  \* useState(false): Loading (FALSE) / Ready (TRUE)
  now,          \* the clock Date.now() reads (milliseconds, abstracted)
  nextSeq,      \* history: how many markers have been added so far
  lastOp,       \* history: the last marker-set operation and the list before it
  prevOp,       \* history: the marker-set operation before lastOp
  image,        \* imageRef.current: natural size, src URL, onload still to come
  replacedImages, \* Images of earlier runs of the image effect, load event due
  canvasSize,   \* useState({ width: 0, height: 0 }): the size computed on load
  mounted,      \* the AnnotationCanvas component is mounted
  objectUrls,   \* object URLs the surface created, and those not yet revoked
  blobJobs,     \* canvas.toBlob callbacks still to come, and how many were issued
  surfaceEvent, \* history: the last Submit, Download, callback or unmount
  \* ---- compressor sizing (pure function under test) ----
  cImg,         \* the decoded image: [width, height], with the maxWidth argument
  cCanvas,      \* the canvas size compressImage's onload computed, or NoValue
  \* ---- Gemini client (one call of analyzeImageWithGemini) ----
  apiKey,       \* import.meta.env.VITE_GEMINI_API_KEY ("" when undefined)
  gOutcome,     \* what fetch and response.json() do in this call
  gResult,      \* what analyzeImageWithGemini returned or threw, or NoValue
  gPc,          \* where the call is: "idle", "fetching", "reading", "settled"
  \* ---- analysis orchestrator (useImageAnalysis) ----
  results,      \* useState<AnalysisResult[]>: most recent first
  progress,     \* useState<UploadProgress>: [progress, status, message]
  error,        \* useState<string | null>: "" stands for null
  runs,         \* the calls of analyzeImage: where each one is suspended
  timers,       \* pending setTimeout callbacks that reset the progress
  urlCount,     \* object URLs created so far by URL.createObjectURL
  lastEvent     \* history: the step just taken and what it started from

validateVars == <<vFile, vResult>>
surfaceVars  == <<image, replacedImages, canvasSize, mounted, objectUrls,
                  blobJobs, surfaceEvent>>
canvasVars   == <<points, currentTool, imageLoaded, nextSeq, lastOp, prevOp,
                  surfaceVars>>
compressVars == <<cImg, cCanvas>>
clientVars   == <<apiKey, gOutcome, gResult, gPc>>
pipeVars     == <<results, progress, error, runs, timers, urlCount, lastEvent>>
vars         == <<vFile, vResult, points, currentTool, imageLoaded, now, nextSeq,
                  lastOp, prevOp, image, replacedImages, canvasSize, mounted, objectUrls,
                  blobJobs, surfaceEvent, cImg, cCanvas, apiKey, gOutcome, gResult, gPc,
                  results, progress, error, runs, timers, urlCount, lastEvent>>

NoValue == [none |-> TRUE]

(***************************************************************************)
(* Bounds of the model                                                     *)
(***************************************************************************)
MaxAdds  == 3   \* markers added in one behaviour of the annotation surface
MaxClock == 1   \* clock readings 0..MaxClock
MaxRuns  == 2   \* calls of analyzeImage open at a time (all the calls, in Spec)
MaxFiles == 2   \* image files one mounted annotation surface is given
MaxSubmits == 2 \* clicks on "Analyze with AI" in one behaviour
MaxResults == 3 \* results one behaviour of a series of calls produces

(***************************************************************************)
(* IEEE 754 double arithmetic, as JavaScript's Number does it              *)
(***************************************************************************)
\* Natural numbers of any size: sequences of digits in base 2^15, least
\* significant first, without leading zero digits (zero is << >>).
Limb == 32768

RECURSIVE BigNorm(_)
BigNorm(a) ==
  IF a = << >> \/ a[Len(a)] # 0 THEN a ELSE BigNorm(SubSeq(a, 1, Len(a) - 1))

RECURSIVE BigNat(_)
BigNat(n) == IF n = 0 THEN << >> ELSE <<n % Limb>> \o BigNat(n \div Limb)

\* The value of a number below 2^31.
RECURSIVE BigToNat(_)
BigToNat(a) == IF a = << >> THEN 0 ELSE a[1] + Limb * BigToNat(Tail(a))

BigDigit(a, i) == IF i <= Len(a) THEN a[i] ELSE 0

RECURSIVE BigAddFrom(_, _, _, _)
BigAddFrom(a, b, i, carry) ==
  IF i > Len(a) /\ i > Len(b)
    THEN (IF carry = 0 THEN << >> ELSE <<carry>>)
    ELSE LET s == BigDigit(a, i) + BigDigit(b, i) + carry
         IN <<s % Limb>> \o BigAddFrom(a, b, i + 1, s \div Limb)

\* a - b for a >= b
RECURSIVE BigSubFrom(_, _, _, _)
BigSubFrom(a, b, i, borrow) ==
  IF i > Len(a) THEN << >>
  ELSE LET d == a[i] - BigDigit(b, i) - borrow
       IN <<IF d < 0 THEN d + Limb ELSE d>>
            \o BigSubFrom(a, b, i + 1, IF d < 0 THEN 1 ELSE 0)

BigSub(a, b) == BigNorm(BigSubFrom(a, b, 1, 0))

BigLess(a, b) ==
  IF Len(a) # Len(b) THEN Len(a) < Len(b)
  ELSE \E i \in 1..Len(a) :
         /\ a[i] < b[i]
         /\ \A j \in (i + 1)..Len(a) : a[j] = b[j]

\* a * c for a digit c
RECURSIVE BigMulDigitFrom(_, _, _, _)
BigMulDigitFrom(a, c, i, carry) ==
  IF i > Len(a) THEN (IF carry = 0 THEN << >> ELSE <<carry>>)
  ELSE LET s == a[i] * c + carry
       IN <<s % Limb>> \o BigMulDigitFrom(a, c, i + 1, s \div Limb)

RECURSIVE BigMul(_, _)
BigMul(a, b) ==
  IF a = << >> \/ b = << >> THEN << >>
  ELSE BigNorm(BigAddFrom(BigMulDigitFrom(a, b[1], 1, 0),
                          <<0>> \o BigMul(a, Tail(b)), 1, 0))

\* 2^k
RECURSIVE BigPow2(_)
BigPow2(k) == IF k < 15 THEN <<2 ^ k>> ELSE <<0>> \o BigPow2(k - 15)

\* a * 2^k
RECURSIVE BigShl(_, _)
BigShl(a, k) ==
  IF a = << >> THEN << >>
  ELSE IF k >= 15 THEN <<0>> \o BigShl(a, k - 15)
  ELSE BigMulDigitFrom(a, 2 ^ k, 1, 0)

\* floor(a / 2^bits) for bits < 15, digit by digit
RECURSIVE BigShrDigits(_, _, _)
BigShrDigits(a, bits, i) ==
  IF i > Len(a) THEN << >>
  ELSE <<(a[i] \div 2 ^ bits) + (BigDigit(a, i + 1) % 2 ^ bits) * 2 ^ (15 - bits)>>
         \o BigShrDigits(a, bits, i + 1)

\* floor(a / 2^k)
BigShr(a, k) ==
  LET drop == k \div 15
      bits == k % 15
      rest == IF drop >= Len(a) THEN << >> ELSE SubSeq(a, drop + 1, Len(a))
  IN BigNorm(BigShrDigits(rest, bits, 1))

\* The number of binary digits of a.
BigBitLen(a) ==
  IF a = << >> THEN 0
  ELSE LET Top(n, top) ==
             15 * (n - 1) + (CHOOSE k \in 1..15 : top \div 2 ^ (k - 1) = 1)
       IN Top(Len(a), a[Len(a)])

\* Quotient and remainder by a digit d > 0 of the number made of the
\* digits i and up of a.
RECURSIVE BigDivDigitFrom(_, _, _)
BigDivDigitFrom(a, d, i) ==
  IF i > Len(a) THEN [quot |-> << >>, rem |-> 0]
  ELSE LET up == BigDivDigitFrom(a, d, i + 1)
           t  == up.rem * Limb + a[i]
       IN [quot |-> <<t \div d>> \o up.quot, rem |-> t % d]

\* The largest q < 2^(bit + 1) with q * d <= r, for r < 2^(bit + 1) * d:
\* found one binary digit at a time, from the top.
RECURSIVE BigQuotDigit(_, _, _)
BigQuotDigit(r, d, bit) ==
  LET Rest(left) == IF bit = 0 THEN 0 ELSE BigQuotDigit(left, d, bit - 1)
      Take(t)    == IF BigLess(r, t) THEN Rest(r)
                                     ELSE 2 ^ bit + Rest(BigSub(r, t))
  IN Take(BigMulDigitFrom(d, 2 ^ bit, 1, 0))

\* Quotient and remainder by any d > 0 of the number made of the digits i
\* and up of a.
RECURSIVE BigDivFrom(_, _, _)
BigDivFrom(a, d, i) ==
  IF i > Len(a) THEN [quot |-> << >>, rem |-> << >>]
  ELSE LET Out(quot, t, q) ==
             [quot |-> <<q>> \o quot,
              rem  |-> IF q = 0 THEN t
                                ELSE BigSub(t, BigMulDigitFrom(d, q, 1, 0))]
           Digit(quot, t) == Out(quot, t, BigQuotDigit(t, d, 14))
           Step(up) == Digit(up.quot, BigNorm(<<a[i]>> \o up.rem))
       IN Step(BigDivFrom(a, d, i + 1))

BigDivMod(a, d) ==
  LET ByDigit(qr) == [quot |-> BigNorm(qr.quot), rem |-> BigNat(qr.rem)]
      ByAny(qr)   == [quot |-> BigNorm(qr.quot), rem |-> qr.rem]
  IN IF Len(d) = 1 THEN ByDigit(BigDivDigitFrom(a, d[1], 1))
                   ELSE ByAny(BigDivFrom(a, d, 1))

\* The number of zero binary digits at the low end of a > 0.
RECURSIVE BigTrailingZeros(_)
BigTrailingZeros(a) ==
  IF a[1] = 0 THEN 15 + BigTrailingZeros(Tail(a))
  ELSE CHOOSE k \in 0..14 : a[1] % 2 ^ k = 0 /\ (a[1] \div 2 ^ k) % 2 = 1

\* A double that is not negative: the value m * 2^e, with m odd (or zero,
\* with e = 0) and of at most 53 binary digits.
DblZero == [m |-> << >>, e |-> 0]
Dbl(m, e) ==
  IF m = << >> THEN DblZero
  ELSE IF m[1] % 2 = 1 THEN [m |-> m, e |-> e]
  ELSE LET Strip(z) == [m |-> BigShr(m, z), e |-> e + z]
       IN Strip(BigTrailingZeros(m))

\* The double of an integer below 2^31.
DblInt(n) ==
  IF n = 0 THEN DblZero
  ELSE LET Odd(z) == [m |-> BigNat(n \div 2 ^ z), e |-> z]
       IN Odd(CHOOSE k \in 0..30 : n % 2 ^ k = 0 /\ (n \div 2 ^ k) % 2 = 1)

\* The double nearest to (n / d) * 2^e, ties to the even significand.
\* A quotient by one of at most 53 binary digits is a double as it is.
\* Otherwise the quotient is taken with 54 or 55 binary digits; the one or
\* two below the 53 kept, and the remainder, decide the rounding.
RoundQuot(n, d, e) ==
  IF n = << >> THEN DblZero
  ELSE IF d = <<1>> /\ BigBitLen(n) <= 53 THEN Dbl(n, e)
  ELSE LET p == 54 - (BigBitLen(n) - BigBitLen(d))
           Round(keep, low, half, inexact, extra) ==
             LET up == low > half \/ (low = half /\ (inexact \/ keep[1] % 2 = 1))
             IN Dbl(IF up THEN BigAddFrom(keep, <<1>>, 1, 0) ELSE keep,
                    e + extra - p)
           Cut(quot, rem, extra) ==
             Round(BigShr(quot, extra), quot[1] % 2 ^ extra, 2 ^ (extra - 1),
                   rem # << >>, extra)
           Shape(qr) == Cut(qr.quot, qr.rem, BigBitLen(qr.quot) - 53)
       IN IF p >= 0 THEN Shape(BigDivMod(BigShl(n, p), d))
                    ELSE Shape(BigDivMod(n, BigShl(d, 0 - p)))

DblDiv(a, b) == RoundQuot(a.m, b.m, a.e - b.e)
DblMul(a, b) == RoundQuot(BigMul(a.m, b.m), <<1>>, a.e + b.e)

\* a < b
DblLess(a, b) ==
  LET e == IF a.e < b.e THEN a.e ELSE b.e
  IN BigLess(BigShl(a.m, a.e - e), BigShl(b.m, b.e - e))

DblMin(a, b) == IF DblLess(b, a) THEN b ELSE a

\* The integer part of a double below 2^31.
DblFloor(a) ==
  IF a.e >= 0 THEN BigToNat(BigShl(a.m, a.e)) ELSE BigToNat(BigShr(a.m, 0 - a.e))

\* Number.prototype.toFixed(1), in tenths: the integer n with n / 10
\* nearest to the double, the larger one of two.
DblToFixed1(a) ==
  IF a.e >= 0 THEN 10 * DblFloor(a)
  ELSE BigToNat(BigShr(BigAddFrom(BigMul(a.m, <<20>>), BigPow2(0 - a.e), 1, 0),
                     1 - a.e))

(***************************************************************************)
(* Image validator: validateImageFile                                      *)
(***************************************************************************)
validTypes == {"image/jpeg", "image/png", "image/webp"}
maxSize    == 10 * 1024 * 1024

InvalidTypeMsg == "Invalid file type. Please upload JPEG, PNG, or WebP images only."
TooLargeMsg    == "File size too large. Please upload images smaller than 10MB."

\* The mutant: the size ceiling excluded (>= instead of >).
validateImageFile_SizeExclusive(file) ==
  IF file.type \notin validTypes
    THEN [isValid |-> FALSE, error |-> InvalidTypeMsg]
    ELSE IF file.size >= maxSize
      THEN [isValid |-> FALSE, error |-> TooLargeMsg]
      ELSE [isValid |-> TRUE, error |-> ""]

\* The mutant: the size check forgotten.
validateImageFile_TypeOnly(file) ==
  IF file.type \notin validTypes
    THEN [isValid |-> FALSE, error |-> InvalidTypeMsg]
    ELSE [isValid |-> TRUE, error |-> ""]

\* error |-> "" stands for the absent `error` property of { isValid: true }.
validateImageFile(file) ==
  IF file.type \notin validTypes
    THEN [isValid |-> FALSE, error |-> InvalidTypeMsg]
    ELSE IF file.size > maxSize
      THEN [isValid |-> FALSE, error |-> TooLargeMsg]
      ELSE [isValid |-> TRUE, error |-> ""]

\* Declared MIME types and byte sizes the validator is tried on.
FileTypes == {"image/jpeg", "image/png", "image/webp", "image/gif",
              "image/svg+xml", "application/pdf", "text/plain", ""}
FileSizes == {0, 1, 500000, 2 * 1024 * 1024, 2 * 1024 * 1024 + 1,
              10 * 1024 * 1024 - 1, 10 * 1024 * 1024, 10 * 1024 * 1024 + 1,
              11000000, 50 * 1024 * 1024}

MkFile(n, t, s) == [name |-> n, type |-> t, size |-> s]

(***************************************************************************)
(* Annotation surface                                                      *)
(***************************************************************************)
HitRadius == 15

\* Canvas positions a click can land on (integer pixels).  They contain the
\* scenario pair (100,100)/(101,101), a pair at distance exactly 15
\* ((100,100)/(109,112)), a pair just beyond it ((101,101)/(116,100), squared
\* distance 226) and a position ((109,112)) within range of two markers that
\* can coexist ((100,100) and (116,100)), and one far from all the others.
Positions == {<<100, 100>>, <<101, 101>>, <<109, 112>>, <<116, 100>>,
              <<300, 300>>}
Tools == {"success", "failure"}

\* (point.x - x) ** 2 + (point.y - y) ** 2
Dist2(p, x, y) == (p.x - x) * (p.x - x) + (p.y - y) * (p.y - y)

\* The mutant: the hit radius excluded (< instead of <=).
InRange_Exclusive(p, x, y) == Dist2(p, x, y) < HitRadius * HitRadius

\* Math.sqrt(d2) <= 15, on integer pixel coordinates: d2 <= 15 * 15
InRange(p, x, y) == Dist2(p, x, y) <= HitRadius * HitRadius

\* points.findIndex(pred): the first index whose marker is in range, 0 for
\* JavaScript's -1 (sequences are 1-based here).
findIndex(pts, x, y) ==
  IF \E i \in 1..Len(pts) : InRange(pts[i], x, y)
    THEN CHOOSE i \in 1..Len(pts) :
           /\ InRange(pts[i], x, y)
           /\ \A j \in 1..(i - 1) : ~InRange(pts[j], x, y)
    ELSE 0

\* The mutant: removal by moving the last marker into the freed slot.
RemoveAt_SwapLast(pts, k) ==
  [i \in 1..(Len(pts) - 1) |-> IF i = k THEN pts[Len(pts)] ELSE pts[i]]

\* prev.filter((_, index) => index !== k)
RemoveAt(pts, k) ==
  [i \in 1..(Len(pts) - 1) |-> IF i < k THEN pts[i] ELSE pts[i + 1]]

\* The Point built by handleCanvasClick; seq is a history field (the count
\* of additions), not part of the program's Point.
NewPoint(x, y, tool, clock, seq) ==
  [x |-> x, y |-> y, type |-> tool, id |-> clock, seq |-> seq]

\* [...prev, newPoint]
AddPoint(pts, p) == Append(pts, p)

\* The mutant: `clickedPointIndex > 0` for `!== -1`, so that a hit on the
\* first marker of the list counts as a miss.
ClickPoints_SkipsFirst(pts, x, y, tool, clock, seq) ==
  LET clickedPointIndex == findIndex(pts, x, y) IN
  IF clickedPointIndex > 1
    THEN RemoveAt(pts, clickedPointIndex)
    ELSE AddPoint(pts, NewPoint(x, y, tool, clock, seq))

\* handleCanvasClick's effect on the marker list.
ClickPoints(pts, x, y, tool, clock, seq) ==
  LET clickedPointIndex == findIndex(pts, x, y) IN
  IF clickedPointIndex # 0
    THEN RemoveAt(pts, clickedPointIndex)
    ELSE AddPoint(pts, NewPoint(x, y, tool, clock, seq))

\* The mutant: the oldest marker dropped instead of the newest (slice(1)).
undoLastPoint_First(pts) == SubSeq(pts, 2, Len(pts))

\* undoLastPoint: prev.slice(0, -1)
undoLastPoint(pts) == SubSeq(pts, 1, Len(pts) - 1)

\* clearPoints: setPoints([])
clearPoints(pts) == << >>

\* Derived stats, recomputed on every render.
RECURSIVE CountType(_, _)
CountType(pts, t) ==
  IF pts = << >> THEN 0
  ELSE (IF Head(pts).type = t THEN 1 ELSE 0) + CountType(Tail(pts), t)

\* The mutant: the filter on the kind forgotten.
successCount_All(pts) == Len(pts)

successCount(pts) == CountType(pts, "success")
failureCount(pts) == CountType(pts, "failure")
totalPoints(pts)  == successCount(pts) + failureCount(pts)

NoOp == [kind |-> "none", x |-> 0, y |-> 0, tool |-> "success", before |-> << >>]
Op(k, x, y, t, b) == [kind |-> k, x |-> x, y |-> y, tool |-> t, before |-> b]


\* Success Rate: ((successCount / totalPoints) * 100).toFixed(1), or 0 when
\* there is no marker; in tenths of a percent (333 is the text "33.3").
\* The quotient and the product are doubles, toFixed rounds the product's
\* exact value to the nearest tenth, the larger one on a tie.
successRateTenths(pts) ==
  IF totalPoints(pts) > 0
    THEN DblToFixed1(DblMul(DblDiv(DblInt(successCount(pts)),
                                   DblInt(totalPoints(pts))),
                            DblInt(100)))
    ELSE 0

maxCanvasWidth  == 800
maxCanvasHeight == 600

\* The mutant: the second test forgotten, only the width bounded.
FitCanvas_WidthOnly(w, h) ==
  IF DblLess(DblInt(maxCanvasWidth), DblInt(w))
    THEN [width  |-> DblInt(maxCanvasWidth),
          height |-> DblDiv(DblMul(DblInt(h), DblInt(maxCanvasWidth)),
                            DblInt(w))]
    ELSE [width |-> DblInt(w), height |-> DblInt(h)]

\* img.onload: let { width, height } = img; if (width > maxWidth) { height =
\* (height * maxWidth) / width; width = maxWidth }; if (height > maxHeight)
\* { width = (width * maxHeight) / height; height = maxHeight }.  Every
\* product and quotient is rounded to a double.
FitCanvas(w, h) ==
  LET BoundHeight(width, height) ==
        IF DblLess(DblInt(maxCanvasHeight), height)
          THEN [width  |-> DblDiv(DblMul(width, DblInt(maxCanvasHeight)), height),
                height |-> DblInt(maxCanvasHeight)]
          ELSE [width |-> width, height |-> height]
  IN IF DblLess(DblInt(maxCanvasWidth), DblInt(w))
       THEN BoundHeight(DblInt(maxCanvasWidth),
                        DblDiv(DblMul(DblInt(h), DblInt(maxCanvasWidth)),
                               DblInt(w)))
       ELSE BoundHeight(DblInt(w), DblInt(h))

\* canvas.width = width; canvas.height = height: a canvas dimension is an
\* unsigned long, the fraction is dropped.
CanvasPixels(size) ==
  [width |-> DblFloor(size.width), height |-> DblFloor(size.height)]

\* Natural sizes of the images the surface is given.
SourceEdges ==
  {1, 2, 300, 599, 600, 601, 799, 800, 801, 960, 1000, 1280, 1600, 3000}

\* The mutant: the buttons never disabled.
exportDisabled_Never(pts) == FALSE

\* disabled={points.length === 0} on the Download and Analyze buttons
exportDisabled(pts) == Len(pts) = 0

\* The Image element of an image effect: src is the object URL it was given.
Image(w, h, src) == [width |-> w, height |-> h, src |-> src, loading |-> TRUE]

\* URL.createObjectURL / URL.revokeObjectURL on the surface's URLs.
CreateUrl(urls) ==
  [created |-> urls.created + 1, live |-> urls.live \cup {urls.created + 1}]

\* A surface whose effect has no cleanup: nothing is ever revoked.
RevokeUrl_Nothing(urls, url) == urls

RevokeUrl(urls, url) == [urls EXCEPT !.live = @ \ {url}]

NoSurfaceEvent == [kind |-> "none", markers |-> 0, blob |-> FALSE]
SurfaceEvent(kind, markers, blob) == [kind |-> kind, markers |-> markers, blob |-> blob]

(***************************************************************************)
(* Image compressor: the canvas size computed by compressImage's onload     *)
(***************************************************************************)
\* Math.min(maxWidth / img.width, maxWidth / img.height): two doubles.
compressRatio(w, h, maxWidth) ==
  DblMin(DblDiv(DblInt(maxWidth), DblInt(w)), DblDiv(DblInt(maxWidth), DblInt(h)))

\* canvas.width = img.width * ratio; canvas.height = img.height * ratio:
\* the product is a double, and a canvas dimension is an unsigned long, so
\* its fraction is dropped.
compressCanvas(w, h, maxWidth) ==
  LET Scaled(ratio) == [width  |-> DblFloor(DblMul(DblInt(w), ratio)),
                        height |-> DblFloor(DblMul(DblInt(h), ratio))]
  IN Scaled(compressRatio(w, h, maxWidth))

ImageEdges == {1, 100, 149, 334, 640, 800, 1200, 1600, 1920, 1921, 3000, 4032}
MaxWidths  == {800, 1920}

(***************************************************************************)
(* Gemini client: analyzeImageWithGemini                                   *)
(***************************************************************************)
PlaceholderKey == "your_gemini_api_key_here"

KeyMissingMsg     == "Gemini API key not configured. Please add your API key to the environment variables."
InvalidRequestMsg == "Invalid request. Please check your image format and try again."
InvalidKeyMsg     == "Invalid API key. Please check your Gemini API key configuration."
ForbiddenMsg      == "API access forbidden. Please check your API key permissions."
RateLimitMsg      == "Rate limit exceeded. Please wait a moment and try again."
NetworkMsg        == "Network error. Please check your internet connection and try again."
UnknownMsg        == "Failed to analyze image. Please try again later."
ApiReturnedErrMsg == "API returned an error"
BadFormatMsg      == "Invalid response format from Gemini API - no analysis text found"

\* `API request failed with status ${response.status}`
StatusMsg(status) == "API request failed with status " \o ToString(status)

\* A thrown ApiError(message, code, details); "" stands for undefined.
\* fetched tells whether the call reached fetch (a network request was issued).
ApiError(message, code, details, fetched) ==
  [ok |-> FALSE, text |-> "", message |-> message, code |-> code,
   details |-> details, fetched |-> fetched]

\* The returned analysis text.
ApiText(text) ==
  [ok |-> TRUE, text |-> text, message |-> "", code |-> "", details |-> "",
   fetched |-> TRUE]

\* a || b on strings: the empty string is falsy.
OrElse(a, b) == IF a # "" THEN a ELSE b

\* Response bodies.  json: "object" (parsed to an object), "null" (parsed
\* to null) or "unparsable" (response.json() rejects).  shape says how far
\* the path candidates[0].content.parts[0].text exists; text is its value
\* when shape = "text".  error is the body's error member or NoValue.
Body(json, shape, text, err) ==
  [json |-> json, shape |-> shape, text |-> text, error |-> err]
ErrorMember(message, code, details) ==
  [message |-> message, code |-> code, details |-> details]

Bodies == {
  Body("object", "text", "Good spread", NoValue),
  Body("object", "text", "", NoValue),
  Body("object", "noCandidates", "", NoValue),
  Body("object", "emptyCandidates", "", NoValue),
  Body("object", "noParts", "", NoValue),
  Body("object", "noCandidates", "",
       ErrorMember("The model is overloaded. Please try again later.", "503", "")),
  Body("object", "noCandidates", "", ErrorMember("", "", "")),
  Body("object", "noCandidates", "",
       ErrorMember("Quota exceeded for this project.", "RATE_LIMIT", "quota")),
  Body("unparsable", "noCandidates", "", NoValue),
  Body("null", "noCandidates", "", NoValue) }

Statuses == {200, 201, 400, 401, 403, 404, 429, 500, 503}

\* What the runtime throws when fetch itself fails: Chrome and Firefox
\* word the TypeError with "fetch", Safari does not; an abort is no TypeError.
FetchFailures == {
  [kind |-> "throw", type |-> "TypeError", msg |-> "Failed to fetch"],
  [kind |-> "throw", type |-> "TypeError",
   msg |-> "NetworkError when attempting to fetch resource."],
  [kind |-> "throw", type |-> "TypeError", msg |-> "Load failed"],
  [kind |-> "throw", type |-> "AbortError", msg |-> "The operation was aborted."] }

Response(status, body) == [kind |-> "response", status |-> status, body |-> body]

FetchOutcomes == FetchFailures \cup {Response(st, b) : st \in Statuses, b \in Bodies}

ApiKeys == {"", PlaceholderKey, "AIzaSyA-valid-looking-key"}

\* error.message.includes('fetch'): some five characters in a row of the
\* message are "fetch".
IncludesFetch(msg) ==
  \E i \in 1..(Len(msg) - 4) : SubSeq(msg, i, i + 4) = "fetch"

\* response.ok
ResponseOk(status) == status >= 200 /\ status <= 299

\* data.candidates && data.candidates[0]?.content?.parts?.[0]?.text
CandidateText(body) == IF body.shape = "text" THEN body.text ELSE ""

\* The outer catch: an ApiError is rethrown as it is; a TypeError whose
\* message includes 'fetch' becomes NETWORK_ERROR; anything else UNKNOWN_ERROR.
CatchNonApiError(type, msg) ==
  IF type = "TypeError" /\ IncludesFetch(msg)
    THEN ApiError(NetworkMsg, "NETWORK_ERROR", "", TRUE)
    ELSE ApiError(UnknownMsg, "UNKNOWN_ERROR", "", TRUE)

\* The branch for a response that is not ok.
ErrorResponse(status, body) ==
  IF status = 400 THEN ApiError(InvalidRequestMsg, "INVALID_REQUEST", "", TRUE)
  ELSE IF status = 401 THEN ApiError(InvalidKeyMsg, "INVALID_API_KEY", "", TRUE)
  ELSE IF status = 403 THEN ApiError(ForbiddenMsg, "FORBIDDEN", "", TRUE)
  ELSE IF status = 429 THEN ApiError(RateLimitMsg, "RATE_LIMIT", "", TRUE)
  ELSE IF body.json = "null"
    \* errorData is null: errorData.error throws a TypeError
    THEN CatchNonApiError("TypeError", "Cannot read properties of null (reading 'error')")
  ELSE IF body.json = "unparsable" \/ body.error = NoValue
    \* errorData is {} (the .catch(() => ({}))), or has no error member
    THEN ApiError(StatusMsg(status), "API_ERROR", "", TRUE)
  ELSE ApiError(OrElse(body.error.message, StatusMsg(status)),
                OrElse(body.error.code, "API_ERROR"),
                body.error.details, TRUE)

\* The branch for a 2xx response.
OkResponse(body) ==
  IF body.json = "unparsable"
    THEN CatchNonApiError("SyntaxError", "Unexpected token < in JSON at position 0")
  ELSE IF body.json = "null"
    THEN CatchNonApiError("TypeError", "Cannot read properties of null (reading 'candidates')")
  ELSE IF CandidateText(body) # "" THEN ApiText(CandidateText(body))
  ELSE IF body.error # NoValue
    THEN ApiError(OrElse(body.error.message, ApiReturnedErrMsg), body.error.code, "", TRUE)
  ELSE ApiError(BadFormatMsg, "", "", TRUE)

analyzeImageWithGemini(key, outcome) ==
  IF key = "" \/ key = PlaceholderKey
    THEN ApiError(KeyMissingMsg, "", "", FALSE)
  ELSE IF outcome.kind = "throw" THEN CatchNonApiError(outcome.type, outcome.msg)
  ELSE IF ~ResponseOk(outcome.status) THEN ErrorResponse(outcome.status, outcome.body)
  ELSE OkResponse(outcome.body)

(***************************************************************************)
(* Analysis orchestrator: the useImageAnalysis hook                        *)
(***************************************************************************)
RunIds == 1..MaxRuns

CompressThreshold == 2 * 1024 * 1024

InvalidFileMsg  == "Invalid file"
EncodeFailedMsg == "Failed to process image. Please try with a different image."

\* An UploadProgress value; message "" stands for an absent message.
Progress(percent, status, message) ==
  [progress |-> percent, status |-> status, message |-> message]

IdleProgress == Progress(0, "idle", "")

\* The progress values analyzeImage publishes on its way, in program order.
ValidatingProgress  == Progress(0, "uploading", "Validating file...")
CompressingProgress == Progress(20, "uploading", "Compressing image...")
ConvertingProgress  == Progress(40, "uploading", "Converting to base64...")
AnalyzingProgress   == Progress(60, "analyzing", "Analyzing with Gemini AI...")

ProcessingProgress  == Progress(90, "analyzing", "Processing results...")
CompleteProgress    == Progress(100, "complete", "Analysis complete!")

\* Files handed to analyzeImage: the 500KB PNG and the 11MB JPEG of the
\* scenarios, a file just over and one exactly at the 2 MiB compression
\* threshold, an unsupported type, and an empty file.
PipelineFiles == {
  MkFile("court.png", "image/png", 500000),
  MkFile("match.jpg", "image/jpeg", 11000000),
  MkFile("match.jpg", "image/jpeg", 2 * 1024 * 1024 + 1),
  MkFile("court.png", "image/png", 2 * 1024 * 1024),
  MkFile("clip.gif", "image/gif", 1000),
  MkFile("court.png", "image/png", 0) }

\* What the remote call can do in a run.
PipelineOutcomes == FetchFailures \cup {
  Response(200, Body("object", "text", "Good spread", NoValue)),
  Response(200, Body("object", "text", "", NoValue)),
  Response(200, Body("object", "emptyCandidates", "", NoValue)),
  Response(200, Body("unparsable", "noCandidates", "", NoValue)),
  Response(400, Body("object", "noCandidates", "", NoValue)),
  Response(401, Body("object", "noCandidates", "", NoValue)),
  Response(403, Body("object", "noCandidates", "", NoValue)),
  Response(429, Body("object", "noCandidates", "",
                     ErrorMember("Quota exceeded for this project.", "RATE_LIMIT", "quota"))),
  Response(500, Body("unparsable", "noCandidates", "", NoValue)),
  Response(503, Body("object", "noCandidates", "",
                     ErrorMember("The model is overloaded. Please try again later.", "503", ""))) }

\* The size of the blob canvas.toBlob delivers for a compressed file.
CompressedSizes == {300000}

\* A call of analyzeImage: pc is the await it is suspended at ("idle" before
\* the call, "done" after it returned); file is its argument, compressed the
\* file handed on to the encoder.  The other fields are history: how often
\* the run called compressImage and fetch, whether compressImage rejected,
\* the values it handed to setProgress (log), the phases it started
\* (phases), and whether it has had the hook to itself since it started: no
\* other call in flight and no reset timer pending (alone).
IdleRun == [pc |-> "idle", file |-> NoValue, compressed |-> NoValue,
            compressCalls |-> 0, fetchCalls |-> 0, compressFailed |-> FALSE,
            log |-> << >>, phases |-> << >>, alone |-> TRUE]
DoneRun == [pc |-> "done", file |-> NoValue, compressed |-> NoValue,
            compressCalls |-> 0, fetchCalls |-> 0, compressFailed |-> FALSE,
            log |-> << >>, phases |-> << >>, alone |-> TRUE]

\* The call is suspended at one of its awaits.
InFlight(run) == run.pc \in {"compressing", "encoding", "calling"}

\* setProgress(p) by the run, then the start of phase ph, in the history.
Publish(run, p) == [run EXCEPT !.log = Append(@, p)]
Enter(run, ph)  == [run EXCEPT !.phases = Append(@, ph)]

\* The mutant: the 2 MiB threshold included (>= for >).
NeedsCompression_Inclusive(file) == file.size >= CompressThreshold

\* file.size > 2 * 1024 * 1024
NeedsCompression(file) == file.size > CompressThreshold

\* The mutant: the catch block of the compression hands on an empty file.
CompressedFile_Empty(file, ok, size) ==
  IF ok THEN MkFile(file.name, file.type, size) ELSE MkFile(file.name, file.type, 0)

\* compressedFile: the File compressImage resolved with (same name and
\* type), or the original file when it rejected.
CompressedFile(file, ok, size) ==
  IF ok THEN MkFile(file.name, file.type, size) ELSE file

\* The AnalysisResult assembled by a run (timestamp, the simulated
\* confidence and the tags, which no operation reads, are left out).
MkResult(id, url, fileName, analysis) ==
  [id |-> id, imageUrl |-> url, fileName |-> fileName, analysis |-> analysis]

\* The mutant: the new result appended instead of put in front.
PushResult_Append(prev, result) == prev \o <<result>>

\* setResults(prev => [result, ...prev])
PushResult(prev, result) == <<result>> \o prev

\* The mutant: the entries that stay come out in reverse order.
RECURSIVE FilterOutId_Reversed(_, _)
FilterOutId_Reversed(prev, id) ==
  IF prev = << >> THEN << >>
  ELSE IF Head(prev).id # id
    THEN FilterOutId_Reversed(Tail(prev), id) \o <<Head(prev)>>
    ELSE FilterOutId_Reversed(Tail(prev), id)

\* prev.filter(result => result.id !== id)
RECURSIVE FilterOutId(_, _)
FilterOutId(prev, id) ==
  IF prev = << >> THEN << >>
  ELSE IF Head(prev).id # id
    THEN <<Head(prev)>> \o FilterOutId(Tail(prev), id)
    ELSE FilterOutId(Tail(prev), id)

\* The object URLs of results that are created and not yet revoked, given
\* how many were created: URL.createObjectURL(file) is the hook's only use
\* of the URL interface, it never calls URL.revokeObjectURL, so every URL
\* it created is still held by the browser.
LiveResultUrls(created) == 1..created

\* The mutant: the message left out of the error progress.
ErrorProgress_NoMessage(errorMessage) == Progress(0, "error", "")

\* The progress analyzeImage publishes in its catch block.
ErrorProgress(errorMessage) == Progress(0, "error", errorMessage)

\* The record of a step of run r: ended is "no" while the run goes on,
\* "complete" or "error" when this step was its last; ret is what the call
\* returned (NoValue for null); outcome, encoded tell what the environment
\* did; before is the result list the step started from, from the progress
\* phase it started from.
RunEvent(kind, r, run, ended, encoded, outcome, ret, before) ==
  [kind |-> kind, run |-> r, file |-> run.file, compressed |-> run.compressed,
   compressCalls |-> run.compressCalls, fetchCalls |-> run.fetchCalls,
   compressFailed |-> run.compressFailed, log |-> run.log,
   phases |-> run.phases, alone |-> run.alone,
   ended |-> ended, encoded |-> encoded, outcome |-> outcome, ret |-> ret,
   before |-> before, from |-> progress.status]

NoEvent == [kind |-> "none"]

(***************************************************************************)
(* Initial values                                                          *)
(***************************************************************************)
ValidateIdle == vFile = NoValue /\ vResult = NoValue
CompressIdle == cImg = NoValue /\ cCanvas = NoValue
ClientIdle   ==
  apiKey = "" /\ gOutcome = NoValue /\ gResult = NoValue /\ gPc = "idle"

\* The hook's state after its first render.
HookInit ==
  /\ results = << >>
  /\ progress = IdleProgress
  /\ error = ""
  /\ runs = [r \in RunIds |-> IdleRun]
  /\ timers = 0
  /\ urlCount = 0
  /\ lastEvent = NoEvent

\* The surface after its mount and the first run of the image effect, for
\* an image of natural size w x h: one object URL created, onload to come.
SurfaceMounted(w, h) ==
  /\ image = Image(w, h, 1)
  /\ replacedImages = {}
  /\ canvasSize = [width |-> DblZero, height |-> DblZero]
  /\ mounted = TRUE
  /\ objectUrls = CreateUrl([created |-> 0, live |-> {}])
  /\ blobJobs = [pending |-> << >>, issued |-> 0]
  /\ surfaceEvent = NoSurfaceEvent

\* The useState initial values of the marker list, the tool and the flag.
MarkersInit ==
  /\ points = << >>
  /\ currentTool = "success"
  /\ imageLoaded = FALSE
  /\ nextSeq = 0
  /\ lastOp = NoOp
  /\ prevOp = NoOp

CanvasInit ==
  /\ MarkersInit
  /\ SurfaceMounted(1600, 1200)

(***************************************************************************)
(* SpecValidate: validateImageFile applied to a drawn file                 *)
(***************************************************************************)
InitValidate ==
  /\ vFile \in {MkFile(n, t, s) : n \in {"court.png"}, t \in FileTypes, s \in FileSizes}
  /\ vResult = NoValue
  /\ CanvasInit
  /\ CompressIdle
  /\ ClientIdle
  /\ HookInit
  /\ now = 0

Validate ==
  /\ vResult = NoValue
  /\ vResult' = validateImageFile(vFile)
  /\ UNCHANGED <<vFile, now>>
  /\ UNCHANGED <<canvasVars, compressVars, clientVars, pipeVars>>

NextValidate == Validate

SpecValidate == InitValidate /\ [][NextValidate]_vars

(***************************************************************************)
(* SpecCanvas: the annotation surface                                      *)
(***************************************************************************)
InitCanvas ==
  /\ ValidateIdle
  /\ CanvasInit
  /\ CompressIdle
  /\ ClientIdle
  /\ HookInit
  /\ now = 0

\* img.onload of the Image the latest run of the image effect made: the
\* canvas is sized, the image drawn, the surface becomes Ready.  (The event
\* may also come after the unmount, the cleanup does not take the handler
\* off: the state updates of an unmounted component are dropped, so that
\* is no step of the surface.)
ImageLoad ==
  /\ mounted
  /\ image.loading
  /\ image' = [image EXCEPT !.loading = FALSE]
  /\ canvasSize' = FitCanvas(image.width, image.height)
  /\ imageLoaded' = TRUE
  /\ UNCHANGED <<points, currentTool, nextSeq, lastOp, prevOp, now>>
  /\ UNCHANGED <<replacedImages, mounted, objectUrls, blobJobs, surfaceEvent>>
  /\ UNCHANGED <<validateVars, compressVars, clientVars, pipeVars>>

\* handleCanvasClick at canvas position (x, y); nothing in it reads
\* imageLoaded, so it runs in Loading as in Ready.  React flushes the state
\* update of a click before the next event is handled, so the `points` the
\* callback closes over is the current list.
Click(x, y) ==
  LET adds == findIndex(points, x, y) = 0 IN
  /\ mounted
  /\ adds => nextSeq < MaxAdds
  /\ points' = ClickPoints(points, x, y, currentTool, now, nextSeq + 1)
  /\ nextSeq' = IF adds THEN nextSeq + 1 ELSE nextSeq
  /\ prevOp' = lastOp
  /\ lastOp' = Op("click", x, y, currentTool, points)
  /\ UNCHANGED <<currentTool, imageLoaded, now, surfaceVars>>
  /\ UNCHANGED <<validateVars, compressVars, clientVars, pipeVars>>

\* The Undo button (disabled while the list is empty).
Undo ==
  /\ mounted
  /\ Len(points) # 0
  /\ points' = undoLastPoint(points)
  /\ prevOp' = lastOp
  /\ lastOp' = Op("undo", 0, 0, currentTool, points)
  /\ UNCHANGED <<currentTool, imageLoaded, nextSeq, now, surfaceVars>>
  /\ UNCHANGED <<validateVars, compressVars, clientVars, pipeVars>>

\* The Clear All button (disabled while the list is empty).
Clear ==
  /\ mounted
  /\ Len(points) # 0
  /\ points' = clearPoints(points)
  /\ prevOp' = lastOp
  /\ lastOp' = Op("clear", 0, 0, currentTool, points)
  /\ UNCHANGED <<currentTool, imageLoaded, nextSeq, now, surfaceVars>>
  /\ UNCHANGED <<validateVars, compressVars, clientVars, pipeVars>>

\* The Success (O) / Failure (X) tool buttons.
SetTool(t) ==
  /\ mounted
  /\ currentTool' = t
  /\ UNCHANGED <<points, imageLoaded, nextSeq, lastOp, prevOp, now, surfaceVars>>
  /\ UNCHANGED <<validateVars, compressVars, clientVars, pipeVars>>

\* The clock is held at one reading here: every marker of a behaviour gets
\* the same id, which none of the list operations reads.
NextCanvas ==
  \/ ImageLoad
  \/ \E xy \in Positions : Click(xy[1], xy[2])
  \/ Undo
  \/ Clear
  \/ \E t \in Tools : SetTool(t)

SpecCanvas == InitCanvas /\ [][NextCanvas]_vars

(***************************************************************************)
(* SpecFit: the canvas sizing of img.onload applied to a drawn image       *)
(***************************************************************************)
InitFit ==
  /\ ValidateIdle
  /\ MarkersInit
  /\ \E w \in SourceEdges, h \in SourceEdges : SurfaceMounted(w, h)
  /\ CompressIdle
  /\ ClientIdle
  /\ HookInit
  /\ now = 0

NextFit == ImageLoad

SpecFit == InitFit /\ [][NextFit]_vars

(***************************************************************************)
(* SpecSurface: the life of the annotation surface, from its mount to its  *)
(* unmount                                                                 *)
(***************************************************************************)
\* Two positions out of each other's range.
SurfacePositions == {<<100, 100>>, <<300, 300>>}

\* The image of the file a mounted surface is given next.
NextImage == [width |-> 1000, height |-> 3000]

\* The clock advances between events.
SurfaceTick ==
  /\ now < MaxClock
  /\ now' = now + 1
  /\ UNCHANGED <<validateVars, canvasVars, compressVars, clientVars, pipeVars>>

\* The image cannot be decoded: no handler is set for it, nothing happens.
ImageError ==
  /\ mounted
  /\ image.loading
  /\ image' = [image EXCEPT !.loading = FALSE]
  /\ UNCHANGED <<points, currentTool, imageLoaded, nextSeq, lastOp, prevOp, now>>
  /\ UNCHANGED <<replacedImages, canvasSize, mounted, objectUrls, blobJobs,
                 surfaceEvent>>
  /\ UNCHANGED <<validateVars, compressVars, clientVars, pipeVars>>

\* The imageFile prop changes: the cleanup of the image effect revokes
\* img.src, then the effect runs again with a new Image and a new URL.
\* The component's state (points, imageLoaded) stays, and so does the
\* onload handler of the earlier Image: if that Image is still loading its
\* load event is still to come.
ReplaceFile ==
  /\ mounted
  /\ objectUrls.created < MaxFiles
  /\ LET urls == CreateUrl(RevokeUrl(objectUrls, image.src))
     IN /\ objectUrls' = urls
        /\ image' = Image(NextImage.width, NextImage.height, urls.created)
  /\ replacedImages' = IF image.loading THEN replacedImages \cup {image}
                                         ELSE replacedImages
  /\ surfaceEvent' = SurfaceEvent("replace", Len(points), FALSE)
  /\ UNCHANGED <<points, currentTool, imageLoaded, nextSeq, lastOp, prevOp, now>>
  /\ UNCHANGED <<canvasSize, mounted, blobJobs>>
  /\ UNCHANGED <<validateVars, compressVars, clientVars, pipeVars>>

\* img.onload of an Image an earlier run of the image effect made, after
\* the imageFile prop has changed: the handler closes over the same canvas
\* and the same state setters, so the canvas is sized for the earlier image
\* and the flag is set, whatever the latest Image is doing.  (An earlier
\* Image that cannot be decoded stays in replacedImages: nothing handles
\* its error.)
StaleImageLoad(old) ==
  /\ mounted
  /\ old \in replacedImages
  /\ replacedImages' = replacedImages \ {old}
  /\ canvasSize' = FitCanvas(old.width, old.height)
  /\ imageLoaded' = TRUE
  /\ UNCHANGED <<points, currentTool, nextSeq, lastOp, prevOp, now>>
  /\ UNCHANGED <<image, mounted, objectUrls, blobJobs, surfaceEvent>>
  /\ UNCHANGED <<validateVars, compressVars, clientVars, pipeVars>>

\* The "Analyze with AI" button: handleSubmit calls canvas.toBlob, whose
\* callback comes later.
Submit ==
  /\ mounted
  /\ ~exportDisabled(points)
  /\ blobJobs.issued < MaxSubmits
  /\ blobJobs' = [pending |-> Append(blobJobs.pending, Len(points)),
                  issued  |-> blobJobs.issued + 1]
  /\ surfaceEvent' = SurfaceEvent("submit", Len(points), FALSE)
  /\ UNCHANGED <<points, currentTool, imageLoaded, nextSeq, lastOp, prevOp, now>>
  /\ UNCHANGED <<image, replacedImages, canvasSize, mounted, objectUrls>>
  /\ UNCHANGED <<validateVars, compressVars, clientVars, pipeVars>>

\* The toBlob callback: if (blob) onSubmitAnnotation(blob).  It also comes
\* when the surface has been unmounted meanwhile.
BlobDone(hasBlob) ==
  /\ blobJobs.pending # << >>
  /\ blobJobs' = [blobJobs EXCEPT !.pending = Tail(@)]
  /\ surfaceEvent' = SurfaceEvent(IF hasBlob THEN "onSubmitAnnotation" ELSE "noBlob",
                                  Head(blobJobs.pending), hasBlob)
  /\ UNCHANGED <<points, currentTool, imageLoaded, nextSeq, lastOp, prevOp, now>>
  /\ UNCHANGED <<image, replacedImages, canvasSize, mounted, objectUrls>>
  /\ UNCHANGED <<validateVars, compressVars, clientVars, pipeVars>>

\* The Download button: handleDownload saves canvas.toDataURL().
Download ==
  /\ mounted
  /\ ~exportDisabled(points)
  /\ surfaceEvent' = SurfaceEvent("download", Len(points), FALSE)
  /\ UNCHANGED <<points, currentTool, imageLoaded, nextSeq, lastOp, prevOp, now>>
  /\ UNCHANGED <<image, replacedImages, canvasSize, mounted, objectUrls,
                 blobJobs>>
  /\ UNCHANGED <<validateVars, compressVars, clientVars, pipeVars>>

\* The parent unmounts the surface (after Cancel, after onSubmitAnnotation,
\* or for a reason of its own): the cleanup of the image effect runs.
Unmount ==
  /\ mounted
  /\ mounted' = FALSE
  /\ objectUrls' = RevokeUrl(objectUrls, image.src)
  /\ surfaceEvent' = SurfaceEvent("unmount", Len(points), FALSE)
  /\ UNCHANGED <<points, currentTool, imageLoaded, nextSeq, lastOp, prevOp, now>>
  /\ UNCHANGED <<image, replacedImages, canvasSize, blobJobs>>
  /\ UNCHANGED <<validateVars, compressVars, clientVars, pipeVars>>

\* The tool and the clock are held here: neither is read by the life cycle.
NextSurface ==
  \/ ImageLoad
  \/ ImageError
  \/ ReplaceFile
  \/ \E old \in replacedImages : StaleImageLoad(old)
  \/ \E xy \in SurfacePositions : Click(xy[1], xy[2])
  \/ Clear
  \/ Submit
  \/ \E hasBlob \in BOOLEAN : BlobDone(hasBlob)
  \/ Download
  \/ Unmount

SpecSurface == InitCanvas /\ [][NextSurface]_vars

(***************************************************************************)
(* SpecClock: clicks on the surface with the clock running                 *)
(***************************************************************************)
NextClock ==
  \/ SurfaceTick
  \/ ImageLoad
  \/ \E xy \in SurfacePositions : Click(xy[1], xy[2])
  \/ Undo

SpecClock == InitCanvas /\ [][NextClock]_vars

(***************************************************************************)
(* SpecCompress: compressImage's sizing applied to a drawn image           *)
(***************************************************************************)
InitCompress ==
  /\ cImg \in {[width |-> w, height |-> h, maxWidth |-> m] :
                 w \in ImageEdges, h \in ImageEdges, m \in MaxWidths}
  /\ cCanvas = NoValue
  /\ ValidateIdle
  /\ CanvasInit
  /\ ClientIdle
  /\ HookInit
  /\ now = 0

\* img.onload inside compressImage
CompressOnLoad ==
  /\ cCanvas = NoValue
  /\ cCanvas' = compressCanvas(cImg.width, cImg.height, cImg.maxWidth)
  /\ UNCHANGED <<cImg, now>>
  /\ UNCHANGED <<validateVars, canvasVars, clientVars, pipeVars>>

NextCompress == CompressOnLoad

SpecCompress == InitCompress /\ [][NextCompress]_vars

(***************************************************************************)
(* SpecClient: one call of analyzeImageWithGemini on a drawn key and       *)
(* outcome, stepping from await to await                                   *)
(***************************************************************************)
InitClient ==
  /\ apiKey \in ApiKeys
  /\ gOutcome \in FetchOutcomes
  /\ gResult = NoValue
  /\ gPc = "idle"
  /\ ValidateIdle
  /\ CanvasInit
  /\ CompressIdle
  /\ HookInit
  /\ now = 0

\* analyzeImageWithGemini is called: without a configured key it throws at
\* once, otherwise it issues the request and waits at `await fetch(...)`.
CallGemini ==
  /\ gPc = "idle"
  /\ IF apiKey = "" \/ apiKey = PlaceholderKey
       THEN /\ gResult' = ApiError(KeyMissingMsg, "", "", FALSE)
            /\ gPc' = "settled"
       ELSE /\ gPc' = "fetching"
            /\ UNCHANGED gResult
  /\ UNCHANGED <<apiKey, gOutcome, now>>
  /\ UNCHANGED <<validateVars, canvasVars, compressVars, pipeVars>>

\* fetch settles: a rejection goes to the catch block; with a response the
\* call waits again, at `await response.json()` of either branch.
FetchSettled ==
  /\ gPc = "fetching"
  /\ IF gOutcome.kind = "throw"
       THEN /\ gResult' = CatchNonApiError(gOutcome.type, gOutcome.msg)
            /\ gPc' = "settled"
       ELSE /\ gPc' = "reading"
            /\ UNCHANGED gResult
  /\ UNCHANGED <<apiKey, gOutcome, now>>
  /\ UNCHANGED <<validateVars, canvasVars, compressVars, pipeVars>>

\* response.json() settles: the branch for the status runs to its return
\* or throw.
BodyRead ==
  /\ gPc = "reading"
  /\ gResult' = IF ResponseOk(gOutcome.status)
                  THEN OkResponse(gOutcome.body)
                  ELSE ErrorResponse(gOutcome.status, gOutcome.body)
  /\ gPc' = "settled"
  /\ UNCHANGED <<apiKey, gOutcome, now>>
  /\ UNCHANGED <<validateVars, canvasVars, compressVars, pipeVars>>

NextClient == CallGemini \/ FetchSettled \/ BodyRead

SpecClient == InitClient /\ [][NextClient]_vars

(***************************************************************************)
(* Spec: the orchestrator                                                  *)
(***************************************************************************)
Init ==
  /\ HookInit
  /\ apiKey \in ApiKeys
  /\ gOutcome = NoValue
  /\ gResult = NoValue
  /\ gPc = "idle"
  /\ ValidateIdle
  /\ CanvasInit
  /\ CompressIdle
  /\ now = 0

nonPipeVars == <<validateVars, canvasVars, compressVars, clientVars>>

KeyConfigured == apiKey # "" /\ apiKey # PlaceholderKey

\* The clock advances between events.
Tick ==
  /\ now < MaxClock
  /\ now' = now + 1
  /\ UNCHANGED pipeVars
  /\ UNCHANGED nonPipeVars

\* The calls after a step of call r that leaves it as `run`: a call that
\* was in flight meanwhile has not had the hook to itself.
WithRun(r, run) ==
  [q \in RunIds |->
     IF q = r THEN run
     ELSE IF InFlight(runs[q]) THEN [runs[q] EXCEPT !.alone = FALSE]
     ELSE runs[q]]

\* The mutant: a catch block without setError(errorMessage).
Fail_NoSetError(r, kind, run, errorMessage, encoded, outcome) ==
  /\ progress' = ErrorProgress(errorMessage)
  /\ runs' = WithRun(r, DoneRun)
  /\ lastEvent' = RunEvent(kind, r, Publish(run, ErrorProgress(errorMessage)),
                           "error", encoded, outcome, NoValue, results)
  /\ UNCHANGED <<error, results, timers, urlCount>>

\* The catch block of analyzeImage: setError, setProgress, return null.
Fail(r, kind, run, errorMessage, encoded, outcome) ==
  /\ error' = errorMessage
  /\ progress' = ErrorProgress(errorMessage)
  /\ runs' = WithRun(r, DoneRun)
  /\ lastEvent' = RunEvent(kind, r, Publish(run, ErrorProgress(errorMessage)),
                           "error", encoded, outcome, NoValue, results)
  /\ UNCHANGED <<results, timers, urlCount>>

\* A hook that lets one call run at a time: analyzeImage returns at once
\* while another call is in flight.
CallAdmitted_OneAtATime(rs, r) == \A q \in RunIds \ {r} : ~InFlight(rs[q])

\* What analyzeImage tests about the calls already running before it does
\* anything: nothing, its body starts with setError(null).
CallAdmitted(rs, r) == TRUE

\* analyzeImage(file) up to its first await: setError(null), the first
\* progress, validation, then either the catch block, or the call of
\* compressImage (file over 2 MiB), or straight on to the call of
\* convertToBase64.  The updates of one synchronous stretch are batched:
\* the last one is the progress the hook shows.
Start(r, file) ==
  LET validation == validateImageFile(file)
      fresh      == /\ timers = 0
                    /\ \A q \in RunIds \ {r} : ~InFlight(runs[q])
      called     == [IdleRun EXCEPT !.file = file, !.compressed = file,
                                    !.alone = fresh]
      validating == Enter(Publish(called, ValidatingProgress), "validate")
      accepted   == Publish(validating, CompressingProgress)
      compressing == Enter([accepted EXCEPT !.pc = "compressing",
                                            !.compressCalls = 1], "compress")
      encoding   == Enter(Publish([accepted EXCEPT !.pc = "encoding"],
                                  ConvertingProgress), "encode")
  IN
  /\ runs[r].pc = "idle"
  /\ r > 1 => runs[r - 1].pc # "idle"
  /\ CallAdmitted(runs, r)
  /\ IF ~validation.isValid
       THEN Fail(r, "start", validating, OrElse(validation.error, InvalidFileMsg),
                 FALSE, NoValue)
       ELSE /\ error' = ""
            /\ IF NeedsCompression(file)
                 THEN /\ progress' = CompressingProgress
                      /\ runs' = WithRun(r, compressing)
                      /\ lastEvent' = RunEvent("start", r, compressing, "no", FALSE,
                                               NoValue, NoValue, results)
                 ELSE /\ progress' = ConvertingProgress
                      /\ runs' = WithRun(r, encoding)
                      /\ lastEvent' = RunEvent("start", r, encoding, "no", FALSE,
                                               NoValue, NoValue, results)
            /\ UNCHANGED <<results, timers, urlCount>>
  /\ UNCHANGED now
  /\ UNCHANGED nonPipeVars

\* compressImage settles: with a new File of the same name and type, or
\* with a failure, after which the original file is used.
CompressDone(r, ok, size) ==
  LET run == Enter(Publish([runs[r] EXCEPT
                              !.pc = "encoding",
                              !.compressed = CompressedFile(runs[r].file, ok, size),
                              !.compressFailed = ~ok],
                           ConvertingProgress), "encode")
  IN
  /\ runs[r].pc = "compressing"
  /\ progress' = ConvertingProgress
  /\ runs' = WithRun(r, run)
  /\ lastEvent' = RunEvent("compressed", r, run, "no", FALSE, NoValue, NoValue, results)
  /\ UNCHANGED <<results, error, timers, urlCount, now>>
  /\ UNCHANGED nonPipeVars

\* The mutant: a failed encoding swallowed like a failed compression, the
\* run going on to the remote call.
EncodeDone_Swallow(r, ok) ==
  LET run == Enter(Publish([runs[r] EXCEPT
                              !.pc = "calling",
                              !.fetchCalls = IF KeyConfigured THEN @ + 1 ELSE @],
                           AnalyzingProgress), "call")
  IN
  /\ runs[r].pc = "encoding"
  /\ runs[r].compressed.size = 0 => ~ok
  /\ progress' = AnalyzingProgress
  /\ runs' = WithRun(r, run)
  /\ lastEvent' = RunEvent("encoded", r, run, "no", ok, NoValue, NoValue, results)
  /\ UNCHANGED <<results, error, timers, urlCount>>
  /\ UNCHANGED now
  /\ UNCHANGED nonPipeVars

\* convertToBase64 settles (an empty file is always rejected); on success
\* analyzeImageWithGemini is called, which issues the fetch when a key is
\* configured.
EncodeDone(r, ok) ==
  LET run == Enter(Publish([runs[r] EXCEPT
                              !.pc = "calling",
                              !.fetchCalls = IF KeyConfigured THEN @ + 1 ELSE @],
                           AnalyzingProgress), "call")
  IN
  /\ runs[r].pc = "encoding"
  /\ runs[r].compressed.size = 0 => ~ok
  /\ IF ~ok
       THEN Fail(r, "encoded", runs[r], EncodeFailedMsg, FALSE, NoValue)
       ELSE /\ progress' = AnalyzingProgress
            /\ runs' = WithRun(r, run)
            /\ lastEvent' = RunEvent("encoded", r, run, "no", TRUE, NoValue, NoValue, results)
            /\ UNCHANGED <<results, error, timers, urlCount>>
  /\ UNCHANGED now
  /\ UNCHANGED nonPipeVars

\* analyzeImageWithGemini settles; on success the result is assembled,
\* pushed, the progress set to complete and the reset timer scheduled.
RemoteDone(r, outcome) ==
  LET res    == analyzeImageWithGemini(apiKey, outcome)
      result == MkResult(now, urlCount + 1, runs[r].file.name, res.text)
      run    == Publish(Enter(Publish(runs[r], ProcessingProgress), "assemble"),
                        CompleteProgress)
  IN
  /\ runs[r].pc = "calling"
  /\ IF ~res.ok
       THEN Fail(r, "remote", runs[r], res.message, TRUE, outcome)
       ELSE /\ results' = PushResult(results, result)
            /\ progress' = CompleteProgress
            /\ timers' = timers + 1
            /\ urlCount' = urlCount + 1
            /\ runs' = WithRun(r, DoneRun)
            /\ lastEvent' = RunEvent("remote", r, run, "complete", TRUE, outcome,
                                     result, results)
            /\ UNCHANGED error
  /\ UNCHANGED now
  /\ UNCHANGED nonPipeVars

\* The setTimeout callback of a completed run: setProgress({0, idle}).
\* The history notes the phase it found and whether a call was in flight.
TimerFire ==
  /\ timers > 0
  /\ timers' = timers - 1
  /\ progress' = IdleProgress
  /\ lastEvent' = [kind |-> "timer", from |-> progress.status,
                   quiet |-> \A r \in RunIds : ~InFlight(runs[r]),
                   before |-> results]
  /\ UNCHANGED <<results, error, runs, urlCount, now>>
  /\ UNCHANGED nonPipeVars

removeResult(id) ==
  /\ \E i \in 1..Len(results) : results[i].id = id
  /\ results' = FilterOutId(results, id)
  /\ lastEvent' = [kind |-> "remove", id |-> id, before |-> results]
  /\ UNCHANGED <<progress, error, runs, timers, urlCount, now>>
  /\ UNCHANGED nonPipeVars

clearResults ==
  /\ ~(results = << >> /\ error = "")
  /\ results' = << >>
  /\ error' = ""
  /\ lastEvent' = [kind |-> "clear", before |-> results]
  /\ UNCHANGED <<progress, runs, timers, urlCount, now>>
  /\ UNCHANGED nonPipeVars

Next ==
  \/ Tick
  \/ \E r \in RunIds, file \in PipelineFiles : Start(r, file)
  \/ \E r \in RunIds, ok \in BOOLEAN, size \in CompressedSizes : CompressDone(r, ok, size)
  \/ \E r \in RunIds, ok \in BOOLEAN : EncodeDone(r, ok)
  \/ \E r \in RunIds :
       \E outcome \in (IF KeyConfigured THEN PipelineOutcomes ELSE {NoValue}) :
         RemoteDone(r, outcome)
  \/ TimerFire
  \/ \E id \in 0..MaxClock : removeResult(id)
  \/ clearResults

Spec == Init /\ [][Next]_vars

(***************************************************************************)
(* SpecResults: the result list over a series of calls                     *)
(***************************************************************************)
\* analyzeImage has returned (return result, return null) and the hook is
\* called again: the finished call makes room for a new one, as long as
\* the calls made and to come cannot produce more than MaxResults results.
Return(r) ==
  /\ runs[r].pc = "done"
  /\ urlCount + Cardinality({q \in RunIds : runs[q].pc # "done"}) < MaxResults
  /\ runs' = [runs EXCEPT ![r] = IdleRun]
  /\ UNCHANGED <<results, progress, error, timers, urlCount, lastEvent, now>>
  /\ UNCHANGED nonPipeVars

\* The calls of the series are handed the 500KB PNG or the unsupported
\* type.
NextResults ==
  \/ Tick
  \/ \E r \in RunIds, file \in {f \in PipelineFiles : f.size \in {1000, 500000}} :
       Start(r, file)
  \/ \E r \in RunIds, ok \in BOOLEAN : EncodeDone(r, ok)
  \/ \E r \in RunIds :
       \E outcome \in (IF KeyConfigured THEN PipelineOutcomes ELSE {NoValue}) :
         RemoteDone(r, outcome)
  \/ TimerFire
  \/ \E id \in 0..MaxClock : removeResult(id)
  \/ clearResults
  \/ \E r \in RunIds : Return(r)

SpecResults == Init /\ [][NextResults]_vars

(***************************************************************************)
(* Claims about the validator                                              *)
(***************************************************************************)

\* C1: validateImageFile accepts a file exactly when its declared type is
\* image/jpeg, image/png or image/webp and its size is at most 10485760
\* bytes; a rejected file gets a non-empty reason: the type reason when the
\* type is unsupported (the type is checked first), the size reason when a
\* file of a supported type is too large.
C1_ValidatorAcceptsExactly ==
  vResult # NoValue =>
    LET typeOk == vFile.type \in {"image/jpeg", "image/png", "image/webp"}
        sizeOk == vFile.size <= 10485760
    IN /\ vResult.isValid <=> (typeOk /\ sizeOk)
       /\ ~vResult.isValid => vResult.error # ""
       /\ ~typeOk => vResult.error = InvalidTypeMsg
       /\ (typeOk /\ ~sizeOk) => vResult.error = TooLargeMsg

\* A file of exactly 10 MiB of a supported type has been validated and accepted.
C1_Witness ==
  /\ vResult # NoValue
  /\ vFile.size = 10485760
  /\ vFile.type = "image/webp"
  /\ vResult.isValid

(***************************************************************************)
(* Claims about the annotation surface                                     *)
(***************************************************************************)
MarkerSet(pts) == {pts[i] : i \in 1..Len(pts)}

\* pts keeps the markers of old that it still holds in old's order.
KeepsOrder(old, pts) ==
  \A i, j \in 1..Len(pts) :
    i < j => \E a, b \in 1..Len(old) : a < b /\ old[a] = pts[i] /\ old[b] = pts[j]

Near(m, x, y) == (m.x - x) * (m.x - x) + (m.y - y) * (m.y - y) <= 225

\* C2: a click with a marker within 15px (inclusive) removes exactly one
\* marker, the earliest-inserted of those in range, and adds none; a click
\* with no marker in range appends exactly one marker at the click position
\* tagged with the selected tool and removes none.
C2_ClickTogglesOneMarker ==
  lastOp.kind = "click" =>
    LET old     == lastOp.before
        hit     == {m \in MarkerSet(old) : Near(m, lastOp.x, lastOp.y)}
        removed == MarkerSet(old) \ MarkerSet(points)
        added   == MarkerSet(points) \ MarkerSet(old)
    IN IF hit # {}
         THEN /\ added = {}
              /\ Len(points) = Len(old) - 1
              /\ \E m \in hit : /\ removed = {m}
                                /\ \A o \in hit : m.seq <= o.seq
              /\ KeepsOrder(old, points)
         ELSE /\ removed = {}
              /\ Len(points) = Len(old) + 1
              /\ SubSeq(points, 1, Len(old)) = old
              /\ LET m == points[Len(points)]
                 IN /\ m.x = lastOp.x
                    /\ m.y = lastOp.y
                    /\ m.type = lastOp.tool

\* A click at (109,112) found two markers in range, the earlier-inserted one
\* at distance exactly 15 and farther than the later one, and removed it.
C2_Witness ==
  /\ lastOp.kind = "click"
  /\ lastOp.x = 109 /\ lastOp.y = 112
  /\ Len(lastOp.before) >= 2
  /\ \E i, j \in 1..Len(lastOp.before) :
       /\ i < j
       /\ lastOp.before[i].x = 100 /\ lastOp.before[i].y = 100
       /\ lastOp.before[j].x = 116 /\ lastOp.before[j].y = 100
       /\ lastOp.before[i] \notin MarkerSet(points)
       /\ lastOp.before[j] \in MarkerSet(points)

\* C3: Undo removes exactly the most recently added marker still in the
\* list and keeps the others in place; Clear leaves the list empty; applied
\* to an empty list both give the empty list.
C3_UndoAndClear ==
  /\ lastOp.kind = "undo" =>
       LET old == lastOp.before
       IN \E m \in MarkerSet(old) :
            /\ \A o \in MarkerSet(old) : o.seq <= m.seq
            /\ MarkerSet(points) = MarkerSet(old) \ {m}
            /\ Len(points) = Len(old) - 1
            /\ \A i \in 1..Len(points) : points[i] = old[i]
  /\ lastOp.kind = "clear" => points = << >>
  /\ points = << >> => undoLastPoint(points) = << >> /\ clearPoints(points) = << >>

\* An Undo on a list of two markers whose first marker was removed and
\* re-added earlier, so that array order and click history differ.
C3_Witness ==
  /\ lastOp.kind = "undo"
  /\ Len(lastOp.before) = 2
  /\ Len(points) = 1
  /\ prevOp.kind = "click"
  /\ nextSeq = 3

\* C4: from a list with no marker within 15px of p or of q, a click at p
\* followed by a click at q with distance(p, q) <= 15 leaves the list exactly
\* as it was before the first click.
C4_ClickPairRestores ==
  ( /\ lastOp.kind = "click"
    /\ prevOp.kind = "click"
    /\ (prevOp.x - lastOp.x) * (prevOp.x - lastOp.x)
         + (prevOp.y - lastOp.y) * (prevOp.y - lastOp.y) <= 225
    /\ \A m \in MarkerSet(prevOp.before) :
         ~Near(m, prevOp.x, prevOp.y) /\ ~Near(m, lastOp.x, lastOp.y) )
  => points = prevOp.before

\* A click at (100,100) then one at (109,112), at distance exactly 15, from
\* a list that already held a marker: the list is back to that one marker.
C4_Witness ==
  /\ lastOp.kind = "click"
  /\ prevOp.kind = "click"
  /\ prevOp.x = 100 /\ prevOp.y = 100
  /\ lastOp.x = 109 /\ lastOp.y = 112
  /\ Len(prevOp.before) = 1
  /\ points = prevOp.before

\* C5: the displayed counts are functions of the marker list: the success
\* and failure counts are the numbers of markers of each kind, they add up
\* to the number of markers, and the rate is successCount / total to the
\* nearest tenth of a percent, 0 for the empty list.
C5_StatsFollowMarkers ==
  LET s == Cardinality({i \in 1..Len(points) : points[i].type = "success"})
      f == Cardinality({i \in 1..Len(points) : points[i].type = "failure"})
      r == successRateTenths(points)
  IN /\ successCount(points) = s
     /\ failureCount(points) = f
     /\ successCount(points) + failureCount(points) = Len(points)
     /\ totalPoints(points) = Len(points)
     /\ Len(points) = 0 => r = 0
     /\ Len(points) > 0 =>
          /\ 2 * (r * Len(points) - 1000 * s) <= Len(points)
          /\ 2 * (1000 * s - r * Len(points)) <= Len(points)

\* Three markers, one success and two failures: the rate shows 33.3.
C5_Witness ==
  /\ Len(points) = 3
  /\ successCount(points) = 1
  /\ failureCount(points) = 2
  /\ successRateTenths(points) = 333


(***************************************************************************)
(* Claims about the compressor                                             *)
(***************************************************************************)

\* C6: the canvas compressImage draws on is at most maxWidth wide, keeps
\* the aspect ratio w:h within rounding, and has the source's own
\* dimensions when the source is no wider than maxWidth.
C6_CompressKeepsSmallImages ==
  cCanvas # NoValue =>
    LET w == cImg.width
        h == cImg.height
        longest == IF w >= h THEN w ELSE h
    IN /\ cCanvas.width <= cImg.maxWidth
       /\ cCanvas.width * h - cCanvas.height * w <= longest
       /\ cCanvas.height * w - cCanvas.width * h <= longest
       /\ w <= cImg.maxWidth => (cCanvas.width = w /\ cCanvas.height = h)

(***************************************************************************)
(* Claims about the orchestrator                                           *)
(***************************************************************************)
IsRunEvent == lastEvent.kind \in {"start", "compressed", "encoded", "remote"}

\* C7: a run whose file passed validation, whose encoding succeeded and
\* whose remote call returned a 2xx response with a non-empty text T at
\* candidates[0].content.parts[0].text ends in phase Complete and returns a
\* result with analysis T and the file's name, which is the first of the
\* result list.
C7_AcceptedUploadCompletes ==
  ( /\ lastEvent.kind = "remote"
    /\ lastEvent.encoded
    /\ lastEvent.outcome # NoValue
    /\ lastEvent.outcome.kind = "response"
    /\ lastEvent.outcome.status \in 200..299
    /\ lastEvent.outcome.body.json = "object"
    /\ lastEvent.outcome.body.shape = "text"
    /\ lastEvent.outcome.body.text # "" )
  => /\ lastEvent.ended = "complete"
     /\ progress.status = "complete"
     /\ lastEvent.ret # NoValue
     /\ lastEvent.ret.analysis = lastEvent.outcome.body.text
     /\ lastEvent.ret.fileName = lastEvent.file.name
     /\ Len(results) = Len(lastEvent.before) + 1
     /\ results[1] = lastEvent.ret

\* The 500KB PNG of the scenario has just completed with "Good spread",
\* while the list already held the result of an earlier run.
C7_Witness ==
  /\ lastEvent.kind = "remote"
  /\ lastEvent.ended = "complete"
  /\ lastEvent.file = MkFile("court.png", "image/png", 500000)
  /\ lastEvent.compressCalls = 0
  /\ lastEvent.ret.analysis = "Good spread"
  /\ Len(results) = 2
  /\ results[2].fileName = "match.jpg"

\* C8: a run whose file fails validation never invokes the compressor nor
\* the remote endpoint, and a run whose base64 encoding fails never invokes
\* the remote endpoint; no run issues a request before its encoding is done.
C8_NoNetworkAfterEarlyFailure ==
  /\ IsRunEvent =>
       LET f == lastEvent.file
           valid == /\ f.type \in {"image/jpeg", "image/png", "image/webp"}
                    /\ f.size <= 10485760
       IN /\ ~valid => /\ lastEvent.ended = "error"
                       /\ lastEvent.compressCalls = 0
                       /\ lastEvent.fetchCalls = 0
          /\ ~lastEvent.encoded => lastEvent.fetchCalls = 0
  /\ \A r \in RunIds :
       runs[r].pc \in {"compressing", "encoding"} =>
         /\ runs[r].fetchCalls = 0
         /\ runs[r].file.type \in {"image/jpeg", "image/png", "image/webp"}
         /\ runs[r].file.size <= 10485760

\* The 11MB JPEG of the scenario has just been rejected for its size.
C8_Witness ==
  /\ lastEvent.kind = "start"
  /\ lastEvent.ended = "error"
  /\ lastEvent.file = MkFile("match.jpg", "image/jpeg", 11000000)
  /\ progress.message = TooLargeMsg
  /\ lastEvent.compressCalls = 0
  /\ lastEvent.fetchCalls = 0

\* C9: the step in which a run fails sets the progress phase to Error with
\* the failure's message as progress message (the validator's reason, the
\* encoding message, or the client error's message: the rate-limit message
\* for HTTP 429); and no step of a run other than its successful completion
\* changes the result list, so a failing run leaves the list as it found it.
C9_FailureSetsErrorKeepsResults ==
  IsRunEvent =>
    /\ lastEvent.ended # "complete" => results = lastEvent.before
    /\ lastEvent.ended = "error" =>
         /\ progress.status = "error"
         /\ progress.message # ""
         /\ lastEvent.kind = "start" =>
              progress.message \in {InvalidTypeMsg, TooLargeMsg}
         /\ lastEvent.kind = "encoded" =>
              progress.message =
                "Failed to process image. Please try with a different image."
         /\ lastEvent.kind = "remote" =>
              progress.message =
                analyzeImageWithGemini(apiKey, lastEvent.outcome).message
         /\ ( /\ lastEvent.kind = "remote"
              /\ lastEvent.outcome # NoValue
              /\ lastEvent.outcome.kind = "response"
              /\ lastEvent.outcome.status = 429 ) =>
              progress.message =
                "Rate limit exceeded. Please wait a moment and try again."

\* A remote call has just answered HTTP 429 while the list held one result:
\* the phase is Error with the rate-limit message and the list is unchanged.
C9_Witness ==
  /\ lastEvent.kind = "remote"
  /\ lastEvent.ended = "error"
  /\ lastEvent.outcome # NoValue
  /\ lastEvent.outcome.kind = "response"
  /\ lastEvent.outcome.status = 429
  /\ progress = Progress(0, "error", RateLimitMsg)
  /\ Len(results) = 1
  /\ results = lastEvent.before

(***************************************************************************)
(* Claims about the Gemini client                                          *)
(***************************************************************************)
\* The class of a failure among the five the contract names, from the
\* key and the HTTP status alone; "other" is any failure outside them.
FailureClass(key, outcome) ==
  IF key = "" \/ key = "your_gemini_api_key_here" THEN "credential"
  ELSE IF outcome.kind # "response" THEN "other"
  ELSE IF outcome.status \in 200..299 THEN "other"
  ELSE IF outcome.status = 400 THEN "badRequest"
  ELSE IF outcome.status = 401 THEN "credential"
  ELSE IF outcome.status = 403 THEN "forbidden"
  ELSE IF outcome.status = 429 THEN "rateLimited"
  ELSE "server"

\* C10: a failure of one of the five classes carries a code, and no
\* failure of another of the five classes carries the same code.
C10_CodeIdentifiesClass ==
  (gResult # NoValue /\ FailureClass(apiKey, gOutcome) # "other") =>
    /\ ~gResult.ok
    /\ gResult.code # ""
    /\ \A k \in ApiKeys, o \in FetchOutcomes :
         ( /\ FailureClass(k, o) # "other"
           /\ FailureClass(k, o) # FailureClass(apiKey, gOutcome) )
         => analyzeImageWithGemini(k, o).code # gResult.code

(***************************************************************************)
(* Claims about the published progress                                     *)
(***************************************************************************)
\* The percents of a sequence of progress values never go down.
NonDecreasing(log) ==
  \A i \in 1..(Len(log) - 1) : log[i].progress <= log[i + 1].progress

\* C11: within one run of analyzeImage, from its first progress update to
\* its last (Complete or Error), the percent it publishes never decreases.
C11_PercentNeverDecreases ==
  /\ IsRunEvent => NonDecreasing(lastEvent.log)
  /\ \A r \in RunIds : NonDecreasing(runs[r].log)

\* C12: once the progress is in a terminal phase, Complete or Error, it
\* returns to Idle with percent 0 without any user action.  Without a user
\* action only a pending reset timer or a call in flight can change the
\* progress, so, as a property of the reachable states: when no timer is
\* pending and no call is in flight, the progress is not left in a terminal
\* phase.
C12_TerminalPhaseResets ==
  (timers = 0 /\ \A r \in RunIds : ~InFlight(runs[r]))
    => progress.status \notin {"complete", "error"}

\* C13: for a run that has the hook to itself (no other call in flight, no
\* reset timer pending), the phase only moves forward in the order Idle,
\* Uploading, Analyzing, then Complete or Error: the run starts from the
\* shown phase Idle, its first update is Uploading, a terminal phase is its
\* last update, Complete comes right after Analyzing and is reached from
\* the shown phase Analyzing, Uploading never follows Analyzing, the run
\* itself never publishes Idle, and the shown phase is the run's latest;
\* Idle is re-entered, by the reset timer with no call in flight, only from
\* Complete or Error.
C13_PhaseOrderInIsolation ==
  /\ (IsRunEvent /\ lastEvent.alone) =>
       LET log == lastEvent.log
           n   == Len(lastEvent.log)
       IN /\ log[1].status = "uploading"
          /\ \A i \in 1..(n - 1) : log[i].status \in {"uploading", "analyzing"}
          /\ \A i \in 1..(n - 1) :
               log[i].status = "analyzing" => log[i + 1].status # "uploading"
          /\ \A i \in 1..n :
               log[i].status = "complete" => (i > 1 /\ log[i - 1].status = "analyzing")
          /\ \A i \in 1..n : log[i].status # "idle"
          /\ progress.status = log[n].status
          /\ (lastEvent.ended = "no") = (log[n].status \in {"uploading", "analyzing"})
          /\ lastEvent.kind = "start" => lastEvent.from = "idle"
          /\ lastEvent.kind # "start" => lastEvent.from \in {"uploading", "analyzing"}
          /\ lastEvent.ended = "complete" => lastEvent.from = "analyzing"
          /\ lastEvent.from = "analyzing" => progress.status # "uploading"
  /\ (lastEvent.kind = "timer" /\ lastEvent.quiet /\ lastEvent.from # "idle") =>
       lastEvent.from \in {"complete", "error"}

(***************************************************************************)
(* Claims about the result list                                            *)
(***************************************************************************)
\* C14: removeResult(id) and clearResults revoke the object URL of every
\* result they discard: in every reachable state the result image URLs
\* created and not yet revoked are exactly the imageUrl values of the
\* results in the list.
C14_DiscardedResultsReleaseUrls ==
  LiveResultUrls(urlCount) = {results[i].imageUrl : i \in 1..Len(results)}

\* C15: a result enters the list only in the step in which a run's remote
\* call has succeeded, and at the front, so that the list is ordered most
\* recently completed first (object URLs are numbered in order of
\* completion); removeResult(id) removes every entry with that id and keeps
\* the others in their order; clearResults leaves the list empty; no other
\* step changes the list.
C15_ResultListOperations ==
  /\ \A i, j \in 1..Len(results) :
       i < j => results[i].imageUrl > results[j].imageUrl
  /\ IsRunEvent =>
       IF lastEvent.ended = "complete"
         THEN /\ lastEvent.outcome.kind = "response"
              /\ lastEvent.outcome.status \in 200..299
              /\ lastEvent.outcome.body.shape = "text"
              /\ lastEvent.fetchCalls = 1
              /\ results = <<lastEvent.ret>> \o lastEvent.before
         ELSE results = lastEvent.before
  /\ lastEvent.kind = "timer" => results = lastEvent.before
  /\ lastEvent.kind = "remove" =>
       LET old  == lastEvent.before
           kept == {i \in 1..Len(old) : old[i].id # lastEvent.id}
       IN /\ \A i \in 1..Len(results) : results[i].id # lastEvent.id
          /\ Len(results) = Cardinality(kept)
          /\ {results[i] : i \in 1..Len(results)} = {old[i] : i \in kept}
          /\ KeepsOrder(old, results)
  /\ lastEvent.kind = "clear" => results = << >>

\* removeResult has just removed the newest of three results, whose id the
\* two older ones do not have, and the list is those two, the newer of
\* them first.
C15_Witness ==
  /\ lastEvent.kind = "remove"
  /\ Len(lastEvent.before) = 3
  /\ lastEvent.before[1].id = lastEvent.id
  /\ lastEvent.before[2].id # lastEvent.id
  /\ lastEvent.before[3].id # lastEvent.id
  /\ lastEvent.before[2] # lastEvent.before[3]
  /\ results = <<lastEvent.before[2], lastEvent.before[3]>>

(***************************************************************************)
(* Claims about the phases of a run                                        *)
(***************************************************************************)
\* Phase b can be the next phase a run starts after phase a.
NextPhase(a, b) ==
  <<a, b>> \in {<<"validate", "compress">>, <<"validate", "encode">>,
                <<"compress", "encode">>, <<"encode", "call">>,
                <<"call", "assemble">>}

\* The phases started so far are in order, each at most once, and the one
\* the run is suspended in (pending) is the last one started.
PhasesInOrder(phases, pending) ==
  /\ Len(phases) >= 1
  /\ phases[1] = "validate"
  /\ \A i \in 1..(Len(phases) - 1) : NextPhase(phases[i], phases[i + 1])
  /\ \A i, j \in 1..Len(phases) : i # j => phases[i] # phases[j]
  /\ pending # "" => phases[Len(phases)] = pending

\* C16: within one run the phases validate, compress, encode, remote call,
\* assemble start in that order, each at most once and only when the one
\* before it has resolved (the run is suspended in at most one phase, the
\* last one started); the request is issued at most once per run; and the
\* step in which a phase fails fatally (validation, encoding, remote call)
\* ends the run in Error with that phase the last one started.
C16_PhasesInSequence ==
  /\ \A r \in RunIds :
       InFlight(runs[r]) =>
         /\ PhasesInOrder(runs[r].phases,
                          CASE runs[r].pc = "compressing" -> "compress"
                            [] runs[r].pc = "encoding"    -> "encode"
                            [] runs[r].pc = "calling"     -> "call")
         /\ runs[r].fetchCalls <= 1
         /\ runs[r].compressCalls <= 1
  /\ IsRunEvent =>
       LET ph == lastEvent.phases
           failed ==
             \/ lastEvent.kind = "start" /\ ~validateImageFile(lastEvent.file).isValid
             \/ lastEvent.kind = "encoded" /\ ~lastEvent.encoded
             \/ lastEvent.kind = "remote"
                  /\ ~analyzeImageWithGemini(apiKey, lastEvent.outcome).ok
       IN /\ PhasesInOrder(ph, "")
          /\ lastEvent.fetchCalls <= 1
          /\ lastEvent.compressCalls <= 1
          /\ failed <=> lastEvent.ended = "error"
          /\ lastEvent.ended # "no" => ~InFlight(runs[lastEvent.run])
          /\ lastEvent.ended = "error" =>
               ph[Len(ph)] = (CASE lastEvent.kind = "start"   -> "validate"
                                [] lastEvent.kind = "encoded" -> "encode"
                                [] lastEvent.kind = "remote"  -> "call")
          /\ lastEvent.ended = "complete" => ph[Len(ph)] = "assemble"

\* Run 2 has gone through all five phases, with one request, while run 1
\* was ended by a failed encoding.
C16_Witness ==
  /\ lastEvent.kind = "remote"
  /\ lastEvent.ended = "complete"
  /\ lastEvent.phases = <<"validate", "compress", "encode", "call", "assemble">>
  /\ lastEvent.fetchCalls = 1
  /\ lastEvent.run = 2
  /\ error = EncodeFailedMsg

\* C17: a failure of compressImage does not abort the run: the step in
\* which it fails goes on to the encoding with the original file, which is
\* the file every later phase of the run uses; the run can still end in
\* Complete, and when it ends in Error it is the encoding or the remote
\* call that failed.
C17_CompressionFailureNotFatal ==
  /\ \A r \in RunIds :
       (InFlight(runs[r]) /\ runs[r].compressFailed) =>
         /\ runs[r].compressed = runs[r].file
         /\ runs[r].pc \in {"encoding", "calling"}
  /\ (IsRunEvent /\ lastEvent.compressFailed) =>
       /\ lastEvent.compressed = lastEvent.file
       /\ lastEvent.compressCalls = 1
       /\ lastEvent.kind = "compressed" =>
            /\ lastEvent.ended = "no"
            /\ runs[lastEvent.run].pc = "encoding"
            /\ progress.status = "uploading"
            /\ lastEvent.phases[Len(lastEvent.phases)] = "encode"
       /\ lastEvent.ended = "error" =>
            \/ lastEvent.kind = "encoded" /\ ~lastEvent.encoded
            \/ lastEvent.kind = "remote"
                 /\ ~analyzeImageWithGemini(apiKey, lastEvent.outcome).ok

\* A run whose compression failed has completed: its result is first in
\* the list and the phase is Complete.
C17_Witness ==
  /\ lastEvent.kind = "remote"
  /\ lastEvent.compressFailed
  /\ lastEvent.ended = "complete"
  /\ lastEvent.file.size > 2097152
  /\ lastEvent.compressed = lastEvent.file
  /\ progress.status = "complete"
  /\ results[1].fileName = lastEvent.file.name

\* C18: a run invokes the compressor exactly when its validated file is
\* larger than 2097152 bytes (2 MiB); a file of 2 MiB or less goes to the
\* encoder unchanged, in the step that validated it.
C18_CompressAboveThreshold ==
  LET Valid(f) == /\ f.type \in {"image/jpeg", "image/png", "image/webp"}
                  /\ f.size <= 10485760
      Holds(ph, calls, f, compressed) ==
        Valid(f) =>
          /\ (calls = 1) <=> (f.size > 2097152)
          /\ (calls = 0) <=> (f.size <= 2097152)
          /\ (\E i \in 1..Len(ph) : ph[i] = "compress") <=> (f.size > 2097152)
          /\ f.size <= 2097152 =>
               /\ compressed = f
               /\ Len(ph) >= 2
               /\ ph[2] = "encode"
  IN /\ \A r \in RunIds :
          InFlight(runs[r]) =>
            Holds(runs[r].phases, runs[r].compressCalls, runs[r].file,
                  runs[r].compressed)
     /\ IsRunEvent =>
          Holds(lastEvent.phases, lastEvent.compressCalls, lastEvent.file,
                lastEvent.compressed)

\* A file of exactly 2 MiB has just been validated and handed to the
\* encoder without a call of the compressor, while a run with a file one
\* byte larger is in the compressor.
C18_Witness ==
  /\ lastEvent.kind = "start"
  /\ lastEvent.file.size = 2097152
  /\ lastEvent.compressCalls = 0
  /\ lastEvent.compressed = lastEvent.file
  /\ runs[lastEvent.run].pc = "encoding"
  /\ \E r \in RunIds : /\ runs[r].pc = "compressing"
                       /\ runs[r].file.size = 2097153

(***************************************************************************)
(* Claims about the failures of the Gemini client                          *)
(***************************************************************************)
\* C19: for a 2xx response analyzeImageWithGemini returns the text at
\* candidates[0].content.parts[0].text when it is there, and for every
\* other body (no or empty candidates, no content or parts, a body that
\* cannot be parsed) fails with the malformed-response ApiError.
C19_MalformedResponseClassified ==
  ( /\ gResult # NoValue
    /\ apiKey # "" /\ apiKey # "your_gemini_api_key_here"
    /\ gOutcome.kind = "response"
    /\ gOutcome.status \in 200..299 )
  => IF /\ gOutcome.body.json = "object"
        /\ gOutcome.body.shape = "text"
        /\ gOutcome.body.text # ""
       THEN gResult.ok /\ gResult.text = gOutcome.body.text
       ELSE /\ ~gResult.ok
            /\ gResult.message =
                 "Invalid response format from Gemini API - no analysis text found"
            /\ gResult.code # "UNKNOWN_ERROR"

\* C20: when the fetch itself fails (it rejects with a TypeError, whatever
\* its message), analyzeImageWithGemini fails with code NETWORK_ERROR and
\* the connectivity message, never with UNKNOWN_ERROR.
C20_TransportFailureIsNetworkError ==
  ( /\ gResult # NoValue
    /\ apiKey # "" /\ apiKey # "your_gemini_api_key_here"
    /\ gOutcome.kind = "throw"
    /\ gOutcome.type = "TypeError" )
  => /\ ~gResult.ok
     /\ gResult.code = "NETWORK_ERROR"
     /\ gResult.message =
          "Network error. Please check your internet connection and try again."

(***************************************************************************)
(* Claims about the life of the annotation surface                         *)
(***************************************************************************)
\* C21: the surface takes marker edits only in Ready: while the image is
\* not yet decoded (Loading) no click adds or removes a marker, so the
\* marker list is empty as long as the surface is not Ready.
C21_EditsOnlyWhenReady ==
  ~imageLoaded => (points = << >> /\ lastOp.kind = "none")

\* C22: Submit and Download are triggered only while the marker list is
\* not empty, and onSubmitAnnotation is called only for a Submit that was
\* issued with at least one marker, and only with a blob.
C22_ExportNeedsMarkers ==
  /\ surfaceEvent.kind \in {"submit", "download"} =>
       surfaceEvent.markers >= 1
  /\ surfaceEvent.kind = "onSubmitAnnotation" =>
       (surfaceEvent.markers >= 1 /\ surfaceEvent.blob)
  /\ surfaceEvent.kind = "noBlob" => ~surfaceEvent.blob
  /\ \A i \in 1..Len(blobJobs.pending) : blobJobs.pending[i] >= 1

\* onSubmitAnnotation has been called for a Submit issued with two markers,
\* after the list was cleared while the blob was being made.
C22_Witness ==
  /\ surfaceEvent.kind = "onSubmitAnnotation"
  /\ surfaceEvent.markers = 2
  /\ surfaceEvent.blob
  /\ points = << >>
  /\ mounted

\* C23: every object URL the surface creates for its image is revoked when
\* the surface unmounts or its image file is replaced, whatever the user
\* did and whether or not the image was decoded: while mounted the one
\* live URL is the src of the current image, after unmount none is live.
C23_SurfaceUrlsRevoked ==
  /\ objectUrls.live \subseteq 1..objectUrls.created
  /\ mounted => objectUrls.live = {image.src}
  /\ ~mounted => objectUrls.live = {}

\* The surface was given a second file and was unmounted while that image
\* was still loading, with a blob callback still to come: both URLs created
\* are revoked.
C23_Witness ==
  /\ ~mounted
  /\ objectUrls.created = 2
  /\ objectUrls.live = {}
  /\ image.loading
  /\ blobJobs.pending # << >>

\* C24: the markers in the list have pairwise distinct ids, also when
\* clicks occur at the same clock reading.
C24_MarkerIdsDistinct ==
  \A i, j \in 1..Len(points) : i # j => points[i].id # points[j].id

(***************************************************************************)
(* Claims about overlapping calls of the hook                              *)
(***************************************************************************)
\* C25: the orchestrator has no in-flight guard: a call can start whatever
\* the other calls are doing, every step of every call writes the one
\* shared progress value and a completing call writes the one result list,
\* so a state with two calls in flight, both writing them, is reachable.
C25_NoInFlightGuard ==
  /\ \A r \in RunIds :
       (runs[r].pc = "idle" /\ (r > 1 => runs[r - 1].pc # "idle")) =>
         \A file \in PipelineFiles : ENABLED Start(r, file)
  /\ IsRunEvent =>
       /\ progress = lastEvent.log[Len(lastEvent.log)]
       /\ lastEvent.ended = "complete" =>
            (results # << >> /\ results[1] = lastEvent.ret)

\* Two calls are in flight, and the first has written the shared progress
\* after the second had written it.
C25_Witness ==
  /\ InFlight(runs[1])
  /\ InFlight(runs[2])
  /\ IsRunEvent
  /\ lastEvent.kind # "start"
  /\ lastEvent.run = 1
  /\ progress = lastEvent.log[Len(lastEvent.log)]
  /\ progress # runs[2].log[Len(runs[2].log)]

(***************************************************************************)
(* Claims about what the edits of the marker list leave alone              *)
(***************************************************************************)
\* Every marker of pts that old already held (same insertion) has the
\* position, kind and id it had in old, and two such markers stand in pts
\* in the order they had in old.
SurvivorsUntouched(old, pts) ==
  /\ \A i \in 1..Len(pts) : \A a \in 1..Len(old) :
       old[a].seq = pts[i].seq => old[a] = pts[i]
  /\ \A i, j \in 1..Len(pts) : \A a, b \in 1..Len(old) :
       (i < j /\ old[a].seq = pts[i].seq /\ old[b].seq = pts[j].seq) => a < b

\* C26: every edit of the marker list (a click that adds or removes, Undo,
\* Clear) and every change of tool leaves the position, kind and id of the
\* markers that remain as they were and keeps their relative order; a change
\* of tool does not change the marker list at all.
C26_EditsKeepOtherMarkers ==
  [][ /\ SurvivorsUntouched(points, points')
      /\ currentTool' # currentTool => points' = points ]_vars

\* A click removed the first of three markers after the tool had been
\* changed: the two that remain are of different kinds and stand as they
\* stood, and the tool now selected differs from the kind of the last one.
C26_Witness ==
  /\ lastOp.kind = "click"
  /\ Len(lastOp.before) = 3
  /\ points = SubSeq(lastOp.before, 2, 3)
  /\ points[1].type # points[2].type
  /\ currentTool # points[2].type

(***************************************************************************)
(* Claims about the size of the annotation canvas                          *)
(***************************************************************************)
DblAtMost(a, k) == ~DblLess(DblInt(k), a)

\* size.width * h and size.height * w, as whole multiples of one power of
\* two: the two are equal exactly when size has the aspect ratio w : h.
AspectCross(size, w, h) ==
  LET e == IF size.width.e < size.height.e THEN size.width.e ELSE size.height.e
  IN [wh |-> BigMul(BigShl(size.width.m, size.width.e - e), BigNat(h)),
      hw |-> BigMul(BigShl(size.height.m, size.height.e - e), BigNat(w))]

\* The aspect ratio of size is w : h up to a relative error of 2^-50.
AspectWithinRounding(size, w, h) ==
  LET c   == AspectCross(size, w, h)
      gap == IF BigLess(c.wh, c.hw) THEN BigSub(c.hw, c.wh) ELSE BigSub(c.wh, c.hw)
  IN ~BigLess(c.hw, BigShl(gap, 50))

\* What C27 says apart from the aspect ratio: the size computed on load is
\* at most 800 wide and 600 high, is (w, h) itself when w <= 800 and
\* h <= 600, and is never larger than the source.
FitsBox(size, w, h) ==
  /\ DblAtMost(size.width, maxCanvasWidth)
  /\ DblAtMost(size.height, maxCanvasHeight)
  /\ size.width # DblZero /\ size.height # DblZero
  /\ (w <= maxCanvasWidth /\ h <= maxCanvasHeight) =>
       size = [width |-> DblInt(w), height |-> DblInt(h)]
  /\ DblAtMost(size.width, w)
  /\ DblAtMost(size.height, h)

\* C27 as it is worded: for a source image of width w > 0 and height h > 0
\* the canvas size computed on load is at most 800 wide and at most 600
\* high, has the same aspect ratio as the source, and is (w, h) itself
\* when w <= 800 and h <= 600.
C27_CanvasFitsBoxExactly ==
  imageLoaded =>
    /\ FitsBox(canvasSize, image.width, image.height)
    /\ LET c == AspectCross(canvasSize, image.width, image.height)
       IN c.wh = c.hw

\* C27, amended: the size computed on load is at most 800 wide and at
\* most 600 high, is (w, h) itself when w <= 800 and h <= 600, and has the
\* aspect ratio of the source up to the rounding of the two divisions (a
\* relative error below 2^-50); the canvas bitmap, whose dimensions are
\* the integer parts, has it to within one pixel.
C27_CanvasFitsBox ==
  imageLoaded =>
    LET w  == image.width
        h  == image.height
        px == CanvasPixels(canvasSize)
        longest == IF w >= h THEN w ELSE h
    IN /\ w > 0 /\ h > 0
       /\ FitsBox(canvasSize, w, h)
       /\ AspectWithinRounding(canvasSize, w, h)
       /\ px.width <= maxCanvasWidth /\ px.height <= maxCanvasHeight
       /\ px.width * h - px.height * w <= longest
       /\ px.height * w - px.width * h <= longest

\* An image of 960 x 1280 has been loaded: both tests fired, the width
\* computed is the double just below 450 and the canvas bitmap is 449 x 600.
C27_Witness ==
  /\ imageLoaded
  /\ image.width = 960 /\ image.height = 1280
  /\ canvasSize.height = DblInt(600)
  /\ DblLess(canvasSize.width, DblInt(450))
  /\ DblLess(DblInt(449), canvasSize.width)
  /\ CanvasPixels(canvasSize) = [width |-> 449, height |-> 600]

(***************************************************************************)
(* Claims about the reset timer, result ids and the value of a call        *)
(***************************************************************************)
\* C28: the delayed reset of a completed call touches only that call's own
\* Complete display: when a later call has started before the delay is
\* over, the timer leaves the progress as it is, so a call in flight never
\* has its phase set to Idle and its percent to 0 by an earlier call.
C28_TimerSparesLaterRun ==
  /\ (\E r \in RunIds : InFlight(runs[r])) => progress.status # "idle"
  /\ (lastEvent.kind = "timer" /\ ~lastEvent.quiet) =>
       progress.status = lastEvent.from

\* C29: the results in the list have pairwise distinct ids, also when two
\* overlapping calls assemble their results at the same clock reading, so
\* removeResult(id) removes at most one result.
C29_ResultIdsDistinct ==
  /\ \A i, j \in 1..Len(results) : i # j => results[i].id # results[j].id
  /\ lastEvent.kind = "remove" => Len(results) >= Len(lastEvent.before) - 1

\* C30: a call of analyzeImage always resolves: its last step either
\* returns the new result, and then the phase is Complete and the result
\* heads the list, or returns null, and then the phase is Error and the
\* hook's error string is the progress message; the value returned is a
\* result exactly in the first case and null exactly in the second.
C30_CallAlwaysResolves ==
  IsRunEvent =>
    /\ lastEvent.ended \in {"no", "complete", "error"}
    /\ lastEvent.ended = "no" =>
         (InFlight(runs[lastEvent.run]) /\ lastEvent.ret = NoValue)
    /\ lastEvent.ended # "no" =>
         /\ runs[lastEvent.run].pc = "done"
         /\ lastEvent.ret # NoValue <=> progress.status = "complete"
         /\ lastEvent.ret = NoValue <=> progress.status = "error"
         /\ lastEvent.ended = progress.status
    /\ lastEvent.ended = "complete" =>
         (results # << >> /\ lastEvent.ret = results[1])
    /\ lastEvent.ended = "error" =>
         (error = progress.message /\ error # "")

\* A call has just returned null because the encoding failed, while the
\* list held the result of an earlier call: error string and progress
\* message are both the encoding message.
C30_Witness ==
  /\ lastEvent.kind = "encoded"
  /\ lastEvent.ended = "error"
  /\ lastEvent.ret = NoValue
  /\ progress.status = "error"
  /\ error = progress.message
  /\ error = "Failed to process image. Please try with a different image."
  /\ Len(results) = 1

====
